---- MODULE Spec2Model ----
(***************************************************************************)
(* The Dune agent loop (src/dune/agent.py) with the tools it dispatches    *)
(* to (src/dune/tools) and the endpoints it calls (src/dune/groq_client.py,*)
(* src/dune/gemini_client.py).  One Agent object; the caller issues        *)
(* execute / execute_stream calls on it, the backend answers, the user     *)
(* answers approval prompts.  The program positions that are states of the *)
(* model are its suspension points: a model call in flight, a stream       *)
(* waiting for its next chunk, a generator suspended at a yield, and an    *)
(* approval prompt waiting for input.  Everything the code does between    *)
(* two suspension points is one step.                                      *)
(***************************************************************************)
EXTENDS Integers, Sequences, FiniteSets, TLC

(***************************************************************************)
(* Bounds of the model.                                                    *)
(***************************************************************************)
MaxCalls      == 2    \* execute / execute_stream calls made on the Agent
MaxTotalTurns == 2    \* sum of the max_turns the caller passes to them
MaxChunks     == 3    \* chunks the streams of the Agent deliver in all
MaxRegisters  == 3    \* ToolRegistry.register calls made after the tool modules are imported
MaxLen        == 3    \* characters of the file a directly called edit works on
MaxRuns       == 3    \* times the command-line program is started
MaxPrompts    == 2    \* prompts one run of the program takes
MaxCreates    == 2    \* GeminiClient.create calls one run of the program makes
MaxPaths      == 3    \* entries of the path list a directly called grep is given
MaxPolls      == 1    \* onboardUser polls one onboarding gets answered

(***************************************************************************)
(* Program constants and the values the environment supplies.              *)
(***************************************************************************)
DANGEROUS_TOOLS == {"shell", "write_file", "edit"}

\* the names cli.py registers by importing the tool modules (those modelled)
RegisteredTools == {"shell", "write_file", "edit", "read_file"}

Endpoints == {"gemini", "groq", "stub"}

Prompts == {"p"}
Texts   == {"hi"}

\* the file the edit and write_file requests name, as a sequence of characters
InitialFile == [exists |-> TRUE, content |-> <<"a", "b", "a">>]

EmptyArgs == [k \in {} |-> 0]

\* the (name, args) requests a backend makes
ShellReq     == [name |-> "shell",      args |-> [command |-> "c"]]
ShellBadReq  == [name |-> "shell",      args |-> EmptyArgs]
EditReq      == [name |-> "edit",       args |-> [path |-> "f", search_text |-> <<"a">>, replace_text |-> <<"c">>]]
ReadReq      == [name |-> "read_file",  args |-> [path |-> "missing.txt"]]
UnknownReq   == [name |-> "nope",       args |-> EmptyArgs]

Requests == {ShellReq, ShellBadReq, EditReq, ReadReq, UnknownReq}

\* payloads of replies that carry neither "function_call" nor "text"
MalformedPayloads == {[error |-> "boom"], EmptyArgs}

Answers == {"y", "n", "interrupt"}

NoCall == [name |-> "none"]
NoOutcome == [kind |-> "none"]

(***************************************************************************)
(* Tools.                                                                  *)
(***************************************************************************)
Required(name) ==
    CASE name = "shell"      -> {"command"}
      [] name = "edit"       -> {"path", "search_text", "replace_text"}
      [] name = "write_file" -> {"path", "contents"}
      [] name = "read_file"  -> {"path"}
      [] OTHER               -> {}

\* the keyword yolo of a tool's run: False unless the arguments carry it
ArgYolo(args) == IF "yolo" \in DOMAIN args THEN args.yolo ELSE FALSE

\* search_text in original_content
Occurs(s, c) == \E i \in 1..(Len(c) - Len(s) + 1) : SubSeq(c, i, i + Len(s) - 1) = s

FirstIndex(s, c) ==
    CHOOSE i \in 1..(Len(c) - Len(s) + 1) :
        /\ SubSeq(c, i, i + Len(s) - 1) = s
        /\ \A j \in 1..(i - 1) : SubSeq(c, j, j + Len(s) - 1) # s

\* a variant that replaces every occurrence standing alone of a one-character
\* search text, and the first occurrence otherwise
ReplaceEach(c, s, r) ==
    IF Len(s) = 1
    THEN LET RECURSIVE each(_)
             each(x) == IF x = <<>> THEN <<>>
                        ELSE (IF <<Head(x)>> = s THEN r ELSE <<Head(x)>>) \o each(Tail(x))
         IN  each(c)
    ELSE IF ~Occurs(s, c) THEN c
    ELSE LET i == FirstIndex(s, c)
         IN  SubSeq(c, 1, i - 1) \o r \o SubSeq(c, i + Len(s), Len(c))

\* original_content.replace(search_text, replace_text, 1)
ReplaceFirst(c, s, r) ==
    IF ~Occurs(s, c) THEN c
    ELSE LET i == FirstIndex(s, c)
         IN  SubSeq(c, 1, i - 1) \o r \o SubSeq(c, i + Len(s), Len(c))

RejectedByUser(name) == [error |-> "Tool call for '" \o name \o "' was rejected by the user."]

\* a variant in which edit does not look for search_text before it goes on
ToolEntryWithoutSearch(name, args, f) ==
    IF ~f.exists THEN [kind |-> "result", result |-> [error |-> "File not found at " \o args.path]]
    ELSE IF ArgYolo(args) THEN [kind |-> "body"] ELSE [kind |-> "prompt"]

\* ToolRegistry.run(name, **args) from its call to the tool's first prompt:
\*   raise  - the lookup or the keyword binding raises
\*   result - the tool returns without a prompt and without an effect
\*   prompt - the tool's own approval prompt is issued
\*   body   - the tool goes on to its effect without a prompt
ToolEntry(name, args, f) ==
    IF name \notin RegisteredTools THEN [kind |-> "raise", exc |-> "KeyError"]
    ELSE IF Required(name) \ DOMAIN args # {} THEN [kind |-> "raise", exc |-> "TypeError"]
    ELSE CASE name = "shell" ->
                IF ArgYolo(args) THEN [kind |-> "body"] ELSE [kind |-> "prompt"]
           [] name = "edit" ->
                IF ~f.exists
                THEN [kind |-> "result", result |-> [error |-> "File not found at " \o args.path]]
                ELSE IF ~Occurs(args.search_text, f.content)
                THEN [kind |-> "result", result |-> [error |-> "Search text not found in file. Use read_file to see the exact content."]]
                ELSE IF ArgYolo(args) THEN [kind |-> "body"] ELSE [kind |-> "prompt"]
           [] name = "write_file" ->
                IF f.exists /\ ~ArgYolo(args) THEN [kind |-> "prompt"] ELSE [kind |-> "body"]
           [] OTHER -> [kind |-> "body"]

\* the rest of the tool's run once no prompt stands in its way
ToolBody(name, args, f) ==
    CASE name = "shell" ->
            [result |-> [stdout |-> "out", stderr |-> ""], file |-> f, ran |-> 1, effect |-> TRUE]
      [] name = "edit" ->
            [result |-> [success |-> TRUE, path |-> args.path],
             file   |-> [exists |-> TRUE,
                         content |-> ReplaceFirst(f.content, args.search_text, args.replace_text)],
             ran |-> 0, effect |-> TRUE]
      [] name = "write_file" ->
            [result |-> [success |-> TRUE, path |-> args.path],
             file   |-> [exists |-> TRUE, content |-> args.contents],
             ran |-> 0, effect |-> TRUE]
      [] OTHER ->  \* read_file on a path that does not exist
            [result |-> [error |-> "File '" \o args.path \o "' does not exist at '../"
                                    \o args.path \o "'."],
             file |-> f, ran |-> 0, effect |-> FALSE]

\* the result a tool returns when its own prompt is answered with no
ToolRejects(name) ==
    CASE name = "shell" -> [error |-> "User rejected the shell command."]
      [] name = "edit"  -> [error |-> "User rejected the edit."]
      [] OTHER          -> [error |-> "User chose not to overwrite the file."]

(***************************************************************************)
(* Streams: the argument texts a stream delivers and what json does with   *)
(* them.                                                                   *)
(***************************************************************************)
ShellJsonA == "{\"command\":"
ShellJsonB == "\"c\"}"
ReadJson   == "{\"path\":\"missing.txt\"}"

\* the tool-call fragments of delta.tool_calls (index, id, function.name,
\* function.arguments); a continuation carries neither id nor name
ShellStart == [index |-> 0, id |-> "call_0", name |-> "shell",     arguments |-> ShellJsonA]
ShellRest  == [index |-> 0, id |-> "",       name |-> "",          arguments |-> ShellJsonB]
NopeAt0    == [index |-> 0, id |-> "call_0", name |-> "nope",      arguments |-> "{}"]
ReadAt1    == [index |-> 1, id |-> "call_1", name |-> "read_file", arguments |-> ReadJson]
ReadBadAt1 == [index |-> 1, id |-> "call_1", name |-> "read_file", arguments |-> "{"]

Fragments == {ShellStart, ShellRest, NopeAt0, ReadAt1, ReadBadAt1}

\* chunk.choices[0].delta: text, or one tool-call fragment
StreamChunks ==
    {[content |-> t, tool_calls |-> <<>>] : t \in Texts}
      \cup {[content |-> "", tool_calls |-> <<f>>] : f \in Fragments}

\* a variant that reads the empty text as the empty object
JsonLoadsEmptyAsObject(text) ==
    CASE text = ShellJsonA \o ShellJsonB -> [ok |-> TRUE, value |-> [command |-> "c"]]
      [] text = ReadJson                 -> [ok |-> TRUE, value |-> [path |-> "missing.txt"]]
      [] text \in {"{}", ""}             -> [ok |-> TRUE, value |-> EmptyArgs]
      [] OTHER                           -> [ok |-> FALSE]

\* json.loads on the texts the fragments above can add up to: the complete
\* documents parse, every other concatenation (the empty text too) raises
\* JSONDecodeError
JsonLoads(text) ==
    CASE text = ShellJsonA \o ShellJsonB -> [ok |-> TRUE, value |-> [command |-> "c"]]
      [] text = ReadJson                 -> [ok |-> TRUE, value |-> [path |-> "missing.txt"]]
      [] text = "{}"                     -> [ok |-> TRUE, value |-> EmptyArgs]
      [] OTHER                           -> [ok |-> FALSE]

\* json.dumps of a tool result: a string that holds the result
JsonDumps(result) == [json |-> result]

InvalidJsonMsg(name, text) ==
    "Error: Invalid JSON arguments for tool " \o name \o ": " \o text

(***************************************************************************)
(* Messages the Agent builds.                                              *)
(***************************************************************************)
\* str(llm_response) of the payloads above
Repr(payload) == IF payload = EmptyArgs THEN "{}" ELSE "{'error': 'boom'}"

TurnLimitMsg == "Error: Agent exceeded maximum turns."

\* a variant that reports a malformed reply with the turn-limit text
InvalidResponseMsgAsTurnLimit(payload) == TurnLimitMsg

InvalidResponseMsg(payload) == "Error: Invalid response from LLM: " \o Repr(payload)

(***************************************************************************)
(* The tool registry (src/dune/tools/__init__.py): a class-level dict from *)
(* a tool's name to its class.  A dict is its keys in insertion order and  *)
(* the value each key holds.                                               *)
(***************************************************************************)
\* a variant of d[k] = v that keeps the value a key already holds
DictSetDefault(d, k, v) ==
    IF k \in DOMAIN d.at THEN d
    ELSE [keys |-> Append(d.keys, k),
          at   |-> [x \in DOMAIN d.at \cup {k} |-> IF x = k THEN v ELSE d.at[x]]]

\* d[k] = v: a new key goes to the end, a key already held keeps its place
DictSet(d, k, v) ==
    [keys |-> IF k \in DOMAIN d.at THEN d.keys ELSE Append(d.keys, k),
     at   |-> [x \in DOMAIN d.at \cup {k} |-> IF x = k THEN v ELSE d.at[x]]]

\* a variant of list_tools that runs from the newest key to the oldest
ListToolsNewestFirst(d) == [i \in 1..Len(d.keys) |-> d.at[d.keys[Len(d.keys) + 1 - i]]]

\* ToolRegistry.list_tools(): list(d.values())
list_tools(d) == [i \in 1..Len(d.keys) |-> d.at[d.keys[i]]]

\* the classes of the tool modules in the order cli.py and rich_ui.py import
\* them (those modelled).  A class is its name attribute, which class it is,
\* and whether it subclasses Tool
ImportedClasses ==
    [i \in 1..4 |-> [name |-> <<"read_file", "write_file", "shell", "edit">>[i],
                     impl |-> "builtin", tool |-> TRUE]]

\* the classes a caller hands to register afterwards
ToolClasses ==
    {[name |-> n, impl |-> i, tool |-> TRUE] : n \in {"shell", "probe"}, i \in {"A", "B"}}
      \cup {[name |-> "probe", impl |-> "C", tool |-> FALSE]}

\* Agent._get_tool_definitions(); the schema attribute of a class names the
\* tool and is the class's own
GetToolDefinitions(d) ==
    LET tools == list_tools(d)
    IN  <<[function_declarations |->
              [i \in 1..Len(tools) |-> [name |-> tools[i].name, of |-> tools[i].impl]]]>>

(***************************************************************************)
(* The Gemini client's project-id cache (src/dune/gemini_client.py).  The  *)
(* text of the cache file is a sequence of JSON tokens.                    *)
(***************************************************************************)
\* json.dump({'project_id': project_id}, f)
DumpProjectId(project_id) == <<"{", "\"project_id\"", ":", project_id, "}">>

\* a variant of _load_cached_project_id that finds nothing
LoadsNothing(file) == "None"

\* GeminiClient._load_cached_project_id(): json.load of the file and
\* data.get('project_id'); a text that is no JSON document raises
\* JSONDecodeError, which is caught.  None is "None" here
_load_cached_project_id(file) ==
    IF /\ file.exists
       /\ Len(file.text) = 5
       /\ file.text[1] = "{" /\ file.text[3] = ":" /\ file.text[5] = "}"
       /\ file.text[2] = "\"project_id\""
    THEN file.text[4]
    ELSE "None"

\* GeminiClient._save_project_id(project_id): the write succeeds, or fails
\* before the file is opened, or fails after the file was opened for writing
\* and two tokens were written; a failure is printed as a warning and
\* nothing is raised.  saved is the id of the last write that succeeded
_save_project_id(file, project_id, how) ==
    CASE how = "ok"       -> [exists |-> TRUE, text |-> DumpProjectId(project_id),
                              saved |-> project_id]
      [] how = "unopened" -> file
      [] OTHER            -> [exists |-> TRUE, text |-> SubSeq(DumpProjectId(project_id), 1, 2),
                              saved |-> file.saved]

\* GeminiClient.clear_cache(): the unlink succeeds, or raises and is printed
\* as a warning
clear_cache(g, file, how) ==
    [gemini |-> [g EXCEPT !.instance = 0, !.initialized = FALSE],
     file   |-> IF file.exists /\ how = "ok"
                THEN [exists |-> FALSE, text |-> <<>>, saved |-> file.saved] ELSE file]

\* the class attributes of GeminiClient in a process that has just started
NoClient ==
    [instance |-> 0, initialized |-> FALSE, refresh_token |-> FALSE, project_id |-> "None",
     pc |-> "idle", made |-> 0, creates |-> 0, polls |-> 0,
     credentials |-> "none", out |-> [kind |-> "none"],
     answered |-> [kind |-> "none", id |-> "None"]]

(***************************************************************************)
(* State.                                                                  *)
(***************************************************************************)
VARIABLES
    llm,            \* which endpoint the Agent was constructed with
    yolo,           \* Agent._yolo
    history,        \* Agent._history
    fs,             \* the file the edit / write_file requests name
    shellRuns,      \* commands the shell tool has run
    pc,             \* where the running call stands
    mode,           \* "blocking" (execute) or "stream" (execute_stream)
    max_turns,      \* the running call's max_turns
    turn,           \* loop iterations the running call has started
    cur,            \* the tool call being handled
    prompts,        \* approval prompts the running call has issued
    full_response_content, tool_calls, tool_outputs,   \* locals of execute_stream
    pos,            \* index, in tool_calls, of the call being handled
    pending,        \* the chunk whose text was yielded and whose rest is still to process
    chunks,         \* chunks the streams have delivered so far
    arg_prompt,     \* the prompt argument of the running call
    budget,         \* sum of the max_turns of the calls made so far
    yielded,        \* items the generator has yielded in the current turn
    received,       \* tool-call fragments the current turn's stream has delivered
    outcome,        \* how the last call ended, as its caller sees it
    endedBy,        \* which exit of the code the last call took
    modelCalls,     \* model calls the running call has issued
    lastInput,      \* the history handed to the last model call
    lastReply,      \* what the endpoint answered last in the running call
    answer,         \* the last answer given to an approval prompt of the running call
    done,           \* the tool calls the running call has completed, with their results
    nCalls,         \* calls made on the Agent
    parked,         \* a generator the caller holds suspended at a yield
    registry,       \* ToolRegistry._registry
    registered,     \* the classes register has stored since the imports, in call order
    regOut,         \* what the last call on ToolRegistry gave its caller
    edit,           \* an edit tool called directly: its arguments, its file, how far it is
    driver,         \* the running main() of cli.py or rich_ui.py; shown is what it
                    \* has printed since it last waited
    gemini,         \* GeminiClient._instance, _initialized and the create call in progress
    cacheFile,      \* the file at PROJECT_ID_CACHE_PATH
    grep,           \* a grep tool called directly: its paths, the files, its results so far
    lib             \* a caller of GeminiClient.create / clear_cache in one process: the
                    \* module it imported the class from and what it passed last

agentVars == <<llm, yolo, history, fs, shellRuns, pc, mode, max_turns, turn, cur, prompts,
          full_response_content, tool_calls, tool_outputs, pos, pending, chunks,
          arg_prompt, budget, yielded, received, outcome, endedBy, modelCalls,
          lastInput,
          lastReply, answer, done, nCalls, parked>>

vars == <<agentVars, registry, registered, regOut, edit, driver, gemini, cacheFile, grep, lib>>

NoChunk == [content |-> "", tool_calls |-> <<>>]
NoReply == [kind |-> "none"]
NoGen   == [kind |-> "none"]

\* the mutable state as one record, so that the code between two suspension
\* points composes as a function from state to state
S == [history |-> history, fs |-> fs, shellRuns |-> shellRuns, pc |-> pc, mode |-> mode,
      max_turns |-> max_turns, turn |-> turn, cur |-> cur, prompts |-> prompts,
      full_response_content |-> full_response_content, tool_calls |-> tool_calls,
      tool_outputs |-> tool_outputs, pos |-> pos, pending |-> pending, chunks |-> chunks,
      arg_prompt |-> arg_prompt, budget |-> budget, yielded |-> yielded,
      received |-> received,
      outcome |-> outcome, endedBy |-> endedBy, modelCalls |-> modelCalls,
      lastInput |-> lastInput, lastReply |-> lastReply, answer |-> answer, done |-> done,
      nCalls |-> nCalls, parked |-> parked]

Commit(n) ==
    /\ history' = n.history /\ fs' = n.fs /\ shellRuns' = n.shellRuns /\ pc' = n.pc
    /\ mode' = n.mode /\ max_turns' = n.max_turns /\ turn' = n.turn /\ cur' = n.cur
    /\ prompts' = n.prompts /\ full_response_content' = n.full_response_content
    /\ tool_calls' = n.tool_calls /\ tool_outputs' = n.tool_outputs /\ pos' = n.pos
    /\ pending' = n.pending /\ chunks' = n.chunks /\ arg_prompt' = n.arg_prompt
    /\ budget' = n.budget /\ yielded' = n.yielded /\ received' = n.received
    /\ outcome' = n.outcome
    /\ endedBy' = n.endedBy /\ modelCalls' = n.modelCalls /\ lastInput' = n.lastInput
    /\ lastReply' = n.lastReply /\ answer' = n.answer /\ done' = n.done
    /\ nCalls' = n.nCalls /\ parked' = n.parked
    /\ UNCHANGED <<llm, yolo>>
    /\ UNCHANGED <<registry, registered, regOut, edit, driver, gemini, cacheFile, grep, lib>>

\* the Agent as constructed, the registry as imported, the program not started
Idle ==
    /\ llm \in Endpoints
    /\ yolo \in BOOLEAN
    /\ history = <<>>
    /\ fs = InitialFile
    /\ shellRuns = 0
    /\ pc = "idle"
    /\ mode = "none"
    /\ max_turns = 0
    /\ turn = 0
    /\ cur = NoCall
    /\ prompts = <<>>
    /\ full_response_content = ""
    /\ tool_calls = <<>>
    /\ tool_outputs = <<>>
    /\ pos = 0
    /\ pending = NoChunk
    /\ chunks = 0
    /\ arg_prompt = ""
    /\ budget = 0
    /\ yielded = <<>>
    /\ received = <<>>
    /\ outcome = NoOutcome
    /\ endedBy = "none"
    /\ modelCalls = 0
    /\ lastInput = <<>>
    /\ lastReply = NoReply
    /\ answer = "none"
    /\ done = <<>>
    /\ nCalls = 0
    /\ parked = NoGen
    /\ registry = [keys |-> [i \in 1..Len(ImportedClasses) |-> ImportedClasses[i].name],
                    at   |-> [n \in {ImportedClasses[i].name : i \in 1..Len(ImportedClasses)} |->
                                 ImportedClasses[CHOOSE i \in 1..Len(ImportedClasses) :
                                                     ImportedClasses[i].name = n]]]
    /\ registered = <<>>
    /\ regOut = [op |-> "none"]
    /\ driver = [pc |-> "off", ui |-> "none", oneshot |-> FALSE, llm |-> "none",
                 built |-> FALSE, looped |-> FALSE, shown |-> <<>>, end |-> "none",
                 at |-> "none", asked |-> 0, runs |-> 0, prev |-> "none"]
    /\ gemini = NoClient
    /\ cacheFile = [exists |-> FALSE, text |-> <<>>, saved |-> "None"]

Init ==
    /\ Idle
    /\ edit = [pc |-> "off"]
    /\ grep = [pc |-> "off"]
    /\ lib = [pc |-> "off"]

(***************************************************************************)
(* How a call ends.                                                        *)
(***************************************************************************)
\* a variant that rolls history back to what the last model call was given
RaiseRollsBack(s, exc, by) ==
    [s EXCEPT !.pc = "idle", !.outcome = [kind |-> "raise", exc |-> exc], !.endedBy = by,
              !.history = s.lastInput]

\* an exception leaves execute, or the generator of execute_stream
Raise(s, exc, by) ==
    [s EXCEPT !.pc = "idle", !.outcome = [kind |-> "raise", exc |-> exc], !.endedBy = by]

\* KeyboardInterrupt, raised by Prompt.ask, is no Exception: nothing catches it
Interrupted(s) == Raise(s, "KeyboardInterrupt", "interrupt")

\* execute returns a string
Return(s, value, by) ==
    [s EXCEPT !.pc = "idle", !.outcome = [kind |-> "return", value |-> value], !.endedBy = by]

\* the generator of execute_stream returns: its caller sees StopIteration
Stop(s, by) ==
    [s EXCEPT !.pc = "idle", !.outcome = [kind |-> "stop"], !.endedBy = by]

(***************************************************************************)
(* The approval gate of the Agent.                                         *)
(***************************************************************************)
\* a variant that gates the shell tool only
NeedsApprovalShellOnly(name, y) == name = "shell" /\ ~y

NeedsApproval(name, y) == name \in DANGEROUS_TOOLS /\ ~y

\* GroqLLMEndpoint._prepare_messages reads turn["content"] of every user turn
PrepareMessagesRaises(h) ==
    \E i \in 1..Len(h) : h[i].role = "user" /\ "content" \notin DOMAIN h[i]


(***************************************************************************)
(* Blocking mode: Agent.execute.                                           *)
(***************************************************************************)
\* the top of `for _ in range(max_turns)` after s.turn iterations: the next
\* model call is issued, or the loop is exhausted
BLoop(s) ==
    IF s.turn >= s.max_turns THEN Return(s, TurnLimitMsg, "exhausted")
    ELSE [s EXCEPT !.pc = "b_await", !.turn = @ + 1, !.modelCalls = @ + 1,
                   !.lastInput = s.history]

\* a variant that appends no function turn for an error payload
BAppendResultDropsErrors(s, result) ==
    BLoop([s EXCEPT !.history = IF "error" \in DOMAIN result THEN @
                                 ELSE Append(@, [role |-> "function", name |-> s.cur.name,
                                                 response |-> result]),
                    !.done = Append(@, [call |-> s.cur, result |-> result])])

\* the function turn is appended and the loop continues
BAppendResult(s, result) ==
    BLoop([s EXCEPT !.history = Append(@, [role |-> "function", name |-> s.cur.name,
                                            response |-> result]),
                    !.done = Append(@, [call |-> s.cur, result |-> result])])

\* a tool's run from its entry: it raises, returns, prompts or takes effect
RunTool(s) ==
    LET e == ToolEntry(s.cur.name, s.cur.args, s.fs)
    IN  CASE e.kind = "raise"  -> [kind |-> "raise", s |-> s, exc |-> e.exc]
          [] e.kind = "result" -> [kind |-> "result", s |-> s, result |-> e.result]
          [] e.kind = "prompt" ->
                [kind |-> "prompt",
                 s |-> [s EXCEPT !.pc = IF s.mode = "blocking" THEN "b_tool" ELSE "s_tool",
                                 !.cur.inner = "pending",
                                 !.prompts = Append(@, [src |-> "tool", tool |-> s.cur.name])]]
          [] OTHER ->
                LET b == ToolBody(s.cur.name, s.cur.args, s.fs)
                IN  [kind |-> "result",
                     s |-> [s EXCEPT !.fs = b.file, !.shellRuns = @ + b.ran,
                                     !.cur.effect = b.effect],
                     result |-> b.result]

\* the tool's own prompt is answered: Ctrl-C raises out of the tool, a no
\* returns the tool's error, a yes lets it go on to its effect
AnswerTool(s, a) ==
    CASE a = "interrupt" -> [kind |-> "raise", s |-> [s EXCEPT !.cur.inner = a]]
      [] a = "n"         -> [kind |-> "result", s |-> [s EXCEPT !.cur.inner = a],
                             result |-> ToolRejects(s.cur.name)]
      [] OTHER ->
            LET b == ToolBody(s.cur.name, s.cur.args, s.fs)
            IN  [kind |-> "result",
                 s |-> [s EXCEPT !.cur.inner = a, !.fs = b.file, !.shellRuns = @ + b.ran,
                                 !.cur.effect = b.effect],
                 result |-> b.result]

\* in blocking mode ToolRegistry.run is called bare: what it raises leaves execute
BToolRaised(s, exc) == Raise(s, exc, "raise_tool")

BRunTool(s) ==
    LET r == RunTool(s)
    IN  CASE r.kind = "raise"  -> BToolRaised(r.s, r.exc)
          [] r.kind = "result" -> BAppendResult(r.s, r.result)
          [] OTHER             -> r.s

\* the tool's prompt is answered while execute waits in ToolRegistry.run
BToolAnswered(s, a) ==
    LET r == AnswerTool(s, a)
    IN  IF r.kind = "raise" THEN Interrupted(r.s) ELSE BAppendResult(r.s, r.result)

\* difflib.unified_diff(a.splitlines(keepends=True), b.splitlines(keepends=True),
\* fromfile="a/<path>", tofile="b/<path>") for texts of one line at most (the
\* empty text has no line): nothing when the texts are equal, else the two
\* file headers, the line removed and the line added
unified_diff(a, b, path) ==
    IF a = b THEN <<>>
    ELSE <<[fromfile |-> "a/" \o path], [tofile |-> "b/" \o path]>>
            \o (IF a # <<>> THEN <<[minus |-> a]>> ELSE <<>>)
            \o (IF b # <<>> THEN <<[plus |-> b]>> ELSE <<>>)

\* the diff preview of an edit call: the diff of the file's text against
\* tool_args.get('new_content', '') is printed; when Path(path) or read_text
\* raises, the warning "Could not generate diff" is printed in its place
EditPreview(args, f) ==
    IF "path" \notin DOMAIN args \/ ~f.exists THEN [kind |-> "warning"]
    ELSE [kind |-> "diff",
          text |-> unified_diff(f.content,
                                IF "new_content" \in DOMAIN args THEN args.new_content ELSE <<>>,
                                args.path)]

NewCall(req, id) ==
    [name |-> req.name, args |-> req.args, id |-> id, gate |-> "none", inner |-> "none",
     preview |-> [kind |-> "none"], effect |-> FALSE]

\* a variant in which a preview that cannot be computed raises out of execute
BFunctionCallPreviewRaises(s, reply) ==
    LET req == reply.function_call
        s1  == [s EXCEPT !.history = Append(@, [role |-> "model", parts |-> reply]),
                         !.cur = NewCall(req, "")]
    IN  IF NeedsApproval(req.name, yolo)
        THEN IF req.name = "edit" /\ EditPreview(req.args, s.fs).kind = "warning"
             THEN Raise(s1, "TypeError", "raise_tool")
             ELSE [s1 EXCEPT !.pc = "b_gate", !.cur.gate = "pending",
                             !.cur.preview = IF req.name = "edit"
                                             THEN EditPreview(req.args, s.fs)
                                             ELSE [kind |-> "none"],
                             !.prompts = Append(@, [src |-> "gate", tool |-> req.name])]
        ELSE BRunTool(s1)

\* `if "function_call" in llm_response`
BFunctionCall(s, reply) ==
    LET req == reply.function_call
        s1  == [s EXCEPT !.history = Append(@, [role |-> "model", parts |-> reply]),
                         !.cur = NewCall(req, "")]
    IN  IF NeedsApproval(req.name, yolo)
        THEN [s1 EXCEPT !.pc = "b_gate", !.cur.gate = "pending",
                        !.cur.preview = IF req.name = "edit"
                                        THEN EditPreview(req.args, s.fs)
                                        ELSE [kind |-> "none"],
                        !.prompts = Append(@, [src |-> "gate", tool |-> req.name])]
        ELSE BRunTool(s1)

\* a variant in which a no at the Agent's prompt lets the tool run
BGateAnsweredRunsAnyway(s, a) ==
    CASE a = "interrupt" -> Interrupted([s EXCEPT !.cur.gate = a])
      [] OTHER           -> BRunTool([s EXCEPT !.cur.gate = a])

\* the Agent's prompt "Approve this tool call?" is answered
BGateAnswered(s, a) ==
    CASE a = "interrupt" -> Interrupted([s EXCEPT !.cur.gate = a])
      [] a = "n"         -> BAppendResult([s EXCEPT !.cur.gate = a], RejectedByUser(s.cur.name))
      [] OTHER           -> BRunTool([s EXCEPT !.cur.gate = a])

\* a variant in which the loop counter outlives the call
StartCallKeepsTurn(s, m, mt) ==
    [s EXCEPT !.mode = m, !.max_turns = mt, !.cur = NoCall, !.prompts = <<>>,
              !.full_response_content = "", !.tool_calls = <<>>, !.tool_outputs = <<>>,
              !.pos = 0, !.pending = NoChunk, !.arg_prompt = "",
              !.budget = @ + mt, !.yielded = <<>>, !.received = <<>>,
              !.outcome = NoOutcome,
              !.endedBy = "none", !.modelCalls = 0, !.lastReply = NoReply, !.answer = "none",
              !.done = <<>>,
              !.nCalls = @ + 1]

\* a call starts: what the previous call left in the per-call state is reset
StartCall(s, m, mt) ==
    [s EXCEPT !.mode = m, !.max_turns = mt, !.turn = 0, !.cur = NoCall, !.prompts = <<>>,
              !.full_response_content = "", !.tool_calls = <<>>, !.tool_outputs = <<>>,
              !.pos = 0, !.pending = NoChunk, !.arg_prompt = "",
              !.budget = @ + mt, !.yielded = <<>>, !.received = <<>>,
              !.outcome = NoOutcome,
              !.endedBy = "none", !.modelCalls = 0, !.lastReply = NoReply, !.answer = "none",
              !.done = <<>>,
              !.nCalls = @ + 1]

\* cli.py drives an Agent in one mode only: execute for a one-shot prompt,
\* execute_stream in the interactive loop
Execute(prompt, mt) ==
    /\ pc = "idle"
    /\ mode \in {"none", "blocking"}
    /\ nCalls < MaxCalls
    /\ budget + mt <= MaxTotalTurns
    /\ Commit(BLoop([StartCall(S, "blocking", mt) EXCEPT
                        !.arg_prompt = prompt,
                        !.history = Append(@, [role |-> "user", parts |-> prompt])]))

\* GroqLLMEndpoint.generate builds its messages before its try block
EndpointRaises == llm = "groq" /\ PrepareMessagesRaises(lastInput)

BPrepareRaises ==
    /\ pc = "b_await"
    /\ EndpointRaises
    /\ Commit([Raise(S, "KeyError", "raise_llm") EXCEPT !.lastReply = [kind |-> "raise"]])

\* generate returns a reply with a function call
BReplyFunctionCall(req) ==
    /\ pc = "b_await"
    /\ ~EndpointRaises
    /\ Commit([BFunctionCall(S, [function_call |-> req]) EXCEPT
                  !.lastReply = [kind |-> "function_call"]])

\* a variant that returns the text and appends no model turn
BTextNotRecorded(s, t) == Return(s, t, "text")

\* `elif "text" in llm_response`
BText(s, t) ==
    Return([s EXCEPT !.history = Append(@, [role |-> "model", parts |-> [text |-> t]])],
           t, "text")

\* generate returns a text reply
BReplyText(t) ==
    /\ pc = "b_await"
    /\ ~EndpointRaises
    /\ Commit([BText(S, t) EXCEPT !.lastReply = [kind |-> "text", text |-> t]])

\* a variant that takes a malformed reply for a turn and goes on
BMalformedGoesOn(s, payload) == BLoop(s)

\* the reply has neither key: execute returns the error string; with the
\* Gemini endpoint generate_content raises on such a payload before execute
\* sees it
BMalformed(s, payload) ==
    IF llm = "gemini"
    THEN [s EXCEPT !.pc = "idle", !.endedBy = "malformed",
                   !.outcome = [kind |-> "raise", exc |-> "Exception",
                                value |-> "Failed to parse response from Gemini: "
                                            \o Repr(payload)]]
    ELSE Return(s, InvalidResponseMsg(payload), "malformed")

BReplyMalformed(payload) ==
    /\ pc = "b_await"
    /\ ~EndpointRaises
    /\ Commit([BMalformed(S, payload) EXCEPT
                  !.lastReply = [kind |-> "malformed", payload |-> payload]])

\* the request of generate fails: requests.post raises in _api_request and
\* nothing between it and the caller of execute catches
BTransportFailure ==
    /\ pc = "b_await"
    /\ ~EndpointRaises
    /\ Commit([Raise(S, "RequestException", "raise_llm") EXCEPT
                  !.lastReply = [kind |-> "failure"]])

BGateAnswer(a) ==
    /\ pc = "b_gate"
    /\ Commit([BGateAnswered(S, a) EXCEPT !.answer = a])

BToolAnswer(a) ==
    /\ pc = "b_tool"
    /\ Commit([BToolAnswered(S, a) EXCEPT !.answer = a])

BlockingNext ==
    \/ \E p \in Prompts, mt \in 0..MaxTotalTurns : Execute(p, mt)
    \/ BPrepareRaises
    \/ \E r \in Requests : BReplyFunctionCall(r)
    \/ \E t \in Texts : BReplyText(t)
    \/ \E m \in MalformedPayloads : BReplyMalformed(m)
    \/ BTransportFailure
    \/ \E a \in Answers : BGateAnswer(a)
    \/ \E a \in Answers : BToolAnswer(a)

(***************************************************************************)
(* Streaming mode: Agent.execute_stream, a generator.                      *)
(***************************************************************************)
\* the top of `for _ in range(max_turns)`: the next stream is requested, or
\* the loop is exhausted and the generator returns
SLoop(s) ==
    IF s.turn >= s.max_turns THEN Stop(s, "exhausted")
    ELSE IF llm = "gemini" THEN Raise(s, "AttributeError", "raise_llm")
    ELSE IF llm = "groq" /\ PrepareMessagesRaises(s.history) THEN Raise(s, "KeyError", "raise_llm")
    ELSE [s EXCEPT !.pc = "s_stream", !.turn = @ + 1, !.modelCalls = @ + 1,
                   !.lastInput = s.history, !.full_response_content = "",
                   !.tool_calls = <<>>, !.tool_outputs = <<>>, !.yielded = <<>>,
                   !.received = <<>>]

\* lines 125-133 for one fragment: a new entry when the index is not below
\* the length, then the arguments appended to tool_calls[index]
MergeFragment(calls, tc) ==
    LET grown == IF Len(calls) <= tc.index
                 THEN Append(calls, [id |-> tc.id, type |-> "function", name |-> tc.name,
                                     arguments |-> ""])
                 ELSE calls
    IN  IF tc.arguments = "" THEN [ok |-> TRUE, calls |-> grown]
        ELSE IF tc.index >= Len(grown) THEN [ok |-> FALSE, calls |-> grown]
        ELSE [ok |-> TRUE,
              calls |-> [grown EXCEPT ![tc.index + 1].arguments = @ \o tc.arguments]]

RECURSIVE MergeAll(_, _)
MergeAll(calls, tcs) ==
    IF tcs = <<>> THEN [ok |-> TRUE, calls |-> calls]
    ELSE LET m == MergeFragment(calls, Head(tcs))
         IN  IF m.ok THEN MergeAll(m.calls, Tail(tcs)) ELSE m

\* `if delta.tool_calls:` for one chunk; an index past the list raises IndexError
MergeToolCalls(s, tcs) ==
    LET m == MergeAll(s.tool_calls, tcs)
        r == s.received \o tcs
    IN  IF m.ok THEN [s EXCEPT !.pc = "s_stream", !.tool_calls = m.calls, !.received = r]
        ELSE Raise([s EXCEPT !.tool_calls = m.calls, !.received = r],
                   "IndexError", "raise_stream")

\* a variant that yields no notification for a call whose arguments parse
SDispatchWithoutNotification(s, i) ==
    IF i > Len(s.tool_calls)
    THEN SLoop([s EXCEPT !.history = @ \o s.tool_outputs])
    ELSE LET tc     == s.tool_calls[i]
             parsed == JsonLoads(tc.arguments)
         IN  IF parsed.ok
             THEN [s EXCEPT !.pc = "s_ynote", !.pos = i,
                            !.cur = NewCall([name |-> tc.name, args |-> parsed.value], tc.id)]
             ELSE [s EXCEPT !.pc = "s_yerr", !.pos = i,
                            !.cur = NewCall([name |-> tc.name, args |-> EmptyArgs], tc.id),
                            !.yielded = Append(@, [kind |-> "str",
                                                   value |-> InvalidJsonMsg(tc.name, tc.arguments)])]

\* `for tool_call in tool_calls` at its i-th call: the arguments are parsed
\* and the call, or the parse error, is yielded; after the last call the
\* results are appended to history and the loop continues
SDispatch(s, i) ==
    IF i > Len(s.tool_calls)
    THEN SLoop([s EXCEPT !.history = @ \o s.tool_outputs])
    ELSE LET tc     == s.tool_calls[i]
             parsed == JsonLoads(tc.arguments)
         IN  IF parsed.ok
             THEN [s EXCEPT !.pc = "s_ynote", !.pos = i,
                            !.cur = NewCall([name |-> tc.name, args |-> parsed.value], tc.id),
                            !.yielded = Append(@, [kind |-> "dict", name |-> tc.name,
                                                   args |-> parsed.value])]
             ELSE [s EXCEPT !.pc = "s_yerr", !.pos = i,
                            !.cur = NewCall([name |-> tc.name, args |-> EmptyArgs], tc.id),
                            !.yielded = Append(@, [kind |-> "str",
                                                   value |-> InvalidJsonMsg(tc.name, tc.arguments)])]

\* the tool output of the call at s.pos is collected and the next call is taken
SToolDone(s, result) ==
    SDispatch([s EXCEPT !.tool_outputs =
                   Append(@, [role |-> "tool", tool_call_id |-> s.cur.id, name |-> s.cur.name,
                              content |-> JsonDumps(result)]),
                        !.done = Append(@, [call |-> s.cur, result |-> result])],
              s.pos + 1)

\* a variant in which the parse error of one call ends the generator
SArgumentErrorAborts(s) == Raise(s, "JSONDecodeError", "raise_stream")

\* `except json.JSONDecodeError`, resumed after the message was yielded
SArgumentError(s) ==
    LET msg == InvalidJsonMsg(s.cur.name, s.tool_calls[s.pos].arguments)
    IN  SDispatch([s EXCEPT !.tool_outputs =
                       Append(@, [role |-> "tool", tool_call_id |-> s.cur.id,
                                  name |-> s.cur.name, content |-> [text |-> msg]]),
                            !.done = Append(@, [call |-> s.cur, result |-> [error |-> msg]])],
                  s.pos + 1)

\* _execute_tool catches what ToolRegistry.run raises
SToolRaised(s, exc) == SToolDone(s, [error |-> "Error executing tool " \o s.cur.name \o ": " \o exc])

SRunTool(s) ==
    LET r == RunTool(s)
    IN  CASE r.kind = "raise"  -> SToolRaised(r.s, r.exc)
          [] r.kind = "result" -> SToolDone(r.s, r.result)
          [] OTHER             -> r.s

\* the tool's prompt is answered while _execute_tool waits in ToolRegistry.run;
\* KeyboardInterrupt is no Exception and passes the except clause
SToolAnswered(s, a) ==
    LET r == AnswerTool(s, a)
    IN  IF r.kind = "raise" THEN Interrupted(r.s) ELSE SToolDone(r.s, r.result)

\* _execute_tool, entered when the generator is resumed after the notification
ExecuteTool(s) ==
    IF NeedsApproval(s.cur.name, yolo)
    THEN [s EXCEPT !.pc = "s_gate", !.cur.gate = "pending",
                   !.prompts = Append(@, [src |-> "gate", tool |-> s.cur.name])]
    ELSE SRunTool(s)

\* a variant in which a no at the Agent's prompt ends the call
SGateAnsweredEndsCall(s, a) ==
    CASE a = "y" -> SRunTool([s EXCEPT !.cur.gate = a])
      [] OTHER   -> Interrupted([s EXCEPT !.cur.gate = a])

\* the Agent's prompt, answered in _execute_tool
SGateAnswered(s, a) ==
    CASE a = "interrupt" -> Interrupted([s EXCEPT !.cur.gate = a])
      [] a = "n"         -> SToolDone([s EXCEPT !.cur.gate = a], RejectedByUser(s.cur.name))
      [] OTHER           -> SRunTool([s EXCEPT !.cur.gate = a])

\* a variant whose final assistant turn has no content
AfterStreamEmptyText(s) ==
    IF s.tool_calls # <<>>
    THEN SDispatch([s EXCEPT !.history =
                        Append(@, [role |-> "assistant", content |-> s.full_response_content,
                                   tool_calls |-> s.tool_calls]),
                             !.tool_outputs = <<>>], 1)
    ELSE Stop([s EXCEPT !.history = Append(@, [role |-> "assistant", content |-> ""])], "text")

\* "After the stream, decide what to do"
AfterStream(s) ==
    IF s.tool_calls # <<>>
    THEN SDispatch([s EXCEPT !.history =
                        Append(@, [role |-> "assistant", content |-> s.full_response_content,
                                   tool_calls |-> s.tool_calls]),
                             !.tool_outputs = <<>>], 1)
    ELSE Stop([s EXCEPT !.history =
                   Append(@, [role |-> "assistant", content |-> s.full_response_content])],
              "text")

\* the streams a backend sends: a fragment that carries a name opens an index
\* not yet in the list, a continuation follows the start of its index
WellFormed(chunk, calls) ==
    \A k \in 1..Len(chunk.tool_calls) :
        LET tc == chunk.tool_calls[k]
        IN  IF tc.name = "" THEN tc.index < Len(calls) ELSE tc.index >= Len(calls)

\* the caller makes the generator: nothing of its body runs yet
ExecuteStream(prompt, mt) ==
    /\ pc = "idle"
    /\ mode \in {"none", "stream"}
    /\ nCalls < MaxCalls
    /\ budget + mt <= MaxTotalTurns
    /\ Commit([StartCall(S, "stream", mt) EXCEPT !.pc = "s_new", !.arg_prompt = prompt])

\* the first next() on the generator
SFirstNext ==
    /\ pc = "s_new"
    /\ Commit(SLoop([S EXCEPT !.history = Append(@, [role |-> "user", content |-> arg_prompt])]))

\* the stream delivers a chunk; its text, if any, is yielded at once
SChunk(chunk) ==
    /\ pc = "s_stream"
    /\ chunks < MaxChunks
    /\ WellFormed(chunk, tool_calls)
    /\ LET s1 == [S EXCEPT !.chunks = @ + 1, !.lastReply = [kind |-> "chunk"]]
       IN  Commit(IF chunk.content # ""
                  THEN [s1 EXCEPT !.pc = "s_ytext", !.pending = chunk,
                                  !.yielded = Append(@, [kind |-> "str", value |-> chunk.content])]
                  ELSE MergeToolCalls(s1, chunk.tool_calls))

\* next() after a yielded text: the text is accumulated, the chunk's tool
\* calls are merged
SResumeText ==
    /\ pc = "s_ytext"
    /\ Commit(MergeToolCalls([S EXCEPT !.full_response_content = @ \o pending.content,
                                       !.pending = NoChunk],
                             pending.tool_calls))

\* the stream ends
SStreamEnd ==
    /\ pc = "s_stream"
    /\ Commit(AfterStream([S EXCEPT !.lastReply = [kind |-> "end"]]))

\* the request of the stream fails.  GroqLLMEndpoint.generate_stream prints
\* the exception and ends the stream; another endpoint's stream raises
SStreamFailure ==
    /\ pc = "s_stream"
    /\ LET s1 == [S EXCEPT !.lastReply = [kind |-> "failure"]]
       IN  Commit(IF llm = "groq" THEN AfterStream(s1) ELSE Raise(s1, "APIError", "raise_llm"))

\* next() after a yielded tool-call notification
SResumeNote ==
    /\ pc = "s_ynote"
    /\ Commit(ExecuteTool(S))

\* next() after a yielded argument error
SResumeErr ==
    /\ pc = "s_yerr"
    /\ Commit(SArgumentError(S))

SGateAnswer(a) ==
    /\ pc = "s_gate"
    /\ Commit([SGateAnswered(S, a) EXCEPT !.answer = a])

SToolAnswer(a) ==
    /\ pc = "s_tool"
    /\ Commit([SToolAnswered(S, a) EXCEPT !.answer = a])

\* the caller drops a generator that is suspended at a yield, or not started
Abandon ==
    /\ pc \in {"s_new", "s_ytext", "s_ynote", "s_yerr"}
    /\ Commit([S EXCEPT !.pc = "idle", !.outcome = [kind |-> "closed"], !.endedBy = "closed"])

StreamNext ==
    \/ \E p \in Prompts, mt \in 0..MaxTotalTurns : ExecuteStream(p, mt)
    \/ SFirstNext
    \/ \E c \in StreamChunks : SChunk(c)
    \/ SResumeText
    \/ SStreamEnd
    \/ SStreamFailure
    \/ SResumeNote
    \/ SResumeErr
    \/ \E a \in Answers : SGateAnswer(a)
    \/ \E a \in Answers : SToolAnswer(a)
    \/ Abandon

Next == BlockingNext \/ StreamNext

Spec == Init /\ [][Next]_vars

(***************************************************************************)
(* Agent.execute on its own, over more than the calls above meet: the file *)
(* is missing or holds some text, an edit call names a path or not and may *)
(* carry the new_content key the preview reads, and a reply of the stub    *)
(* endpoint may carry a function call and text at once (the Groq and the   *)
(* Gemini endpoint return one or the other).                               *)
(***************************************************************************)
EditCalls ==
    {EditReq,
     [name |-> "edit", args |-> [search_text |-> <<"a">>, replace_text |-> <<"c">>]],
     [name |-> "edit", args |-> [path |-> "f", search_text |-> <<"a">>, replace_text |-> <<"c">>,
                                 new_content |-> <<"c", "b">>]]}

\* the file is written or removed outside the program before the Agent is used
FileChanges(f) ==
    /\ pc = "idle"
    /\ nCalls = 0
    /\ fs = InitialFile
    /\ f # InitialFile
    /\ fs' = f
    /\ UNCHANGED <<llm, yolo, history, shellRuns, pc, mode, max_turns, turn, cur, prompts,
                   full_response_content, tool_calls, tool_outputs, pos, pending, chunks,
                   arg_prompt, budget, yielded, received, outcome, endedBy, modelCalls,
                   lastInput, lastReply, answer, done, nCalls, parked>>
    /\ UNCHANGED <<registry, registered, regOut, edit, driver, gemini, cacheFile, grep, lib>>

\* generate returns a reply with both keys
BReplyFunctionCallAndText(req, t) ==
    /\ pc = "b_await"
    /\ llm = "stub"
    /\ Commit([BFunctionCall(S, [function_call |-> req, text |-> t]) EXCEPT
                  !.lastReply = [kind |-> "function_call", text |-> t]])

NextExecute ==
    \/ \E f \in {[exists |-> FALSE, content |-> <<>>]}
                  \cup {[exists |-> TRUE, content |-> c] : c \in {<<>>, <<"b">>, <<"a", "b">>}} :
          FileChanges(f)
    \/ \E p \in Prompts, mt \in 0..MaxTotalTurns : Execute(p, mt)
    \/ \E r \in EditCalls \cup {ShellReq, UnknownReq} : BReplyFunctionCall(r)
    \/ \E r \in {EditReq, ShellReq}, t \in Texts : BReplyFunctionCallAndText(r, t)
    \/ \E t \in Texts : BReplyText(t)
    \/ \E a \in Answers : BGateAnswer(a)
    \/ \E a \in Answers : BToolAnswer(a)

SpecExecute == Init /\ [][NextExecute]_vars

(***************************************************************************)
(* Agent.execute_stream on its own, with streams that may also open a call *)
(* and send no argument text for it: a fragment with the call's id and     *)
(* name and an empty function.arguments, never continued.                  *)
(***************************************************************************)
NoArgumentChunks ==
    {[content |-> "",
      tool_calls |-> <<[index |-> i, id |-> "call_ls", name |-> "ls", arguments |-> ""]>>] :
        i \in 0..1}

NextStream ==
    \/ \E p \in Prompts, mt \in 0..MaxTotalTurns : ExecuteStream(p, mt)
    \/ SFirstNext
    \/ \E c \in StreamChunks \cup NoArgumentChunks : SChunk(c)
    \/ SResumeText
    \/ SStreamEnd
    \/ SStreamFailure
    \/ SResumeNote
    \/ SResumeErr
    \/ \E a \in Answers : SGateAnswer(a)
    \/ \E a \in Answers : SToolAnswer(a)
    \/ Abandon

SpecStream == Init /\ [][NextStream]_vars

(***************************************************************************)
(* A caller that holds a generator.  execute_stream returns a generator    *)
(* object; the caller may leave it suspended at a yield, make another call *)
(* on the same Agent, and advance the first generator afterwards.  Nothing *)
(* in Agent refuses the second call: execute and execute_stream append to  *)
(* _history unconditionally.                                               *)
(***************************************************************************)
\* the caller sets a suspended generator aside, with its locals
Park ==
    /\ pc \in {"s_ytext", "s_ynote", "s_yerr"}
    /\ parked = NoGen
    /\ nCalls < MaxCalls
    /\ Commit([S EXCEPT !.pc = "idle", !.parked = [kind |-> "gen", locals |-> S]])

\* next() on the generator set aside: its locals are as they were, the
\* Agent and the world are as they are now
ResumeParked ==
    /\ pc = "idle"
    /\ parked # NoGen
    /\ Commit([parked.locals EXCEPT !.history = history, !.fs = fs, !.shellRuns = shellRuns,
                                    !.chunks = chunks, !.budget = budget, !.nCalls = nCalls,
                                    !.parked = NoGen])

NextReentrant == Next \/ Park \/ ResumeParked

SpecReentrant == Init /\ [][NextReentrant]_vars

(***************************************************************************)
(* The registry on its own: callers register classes, list the tools, ask  *)
(* for the tool definitions and run tools by name.                         *)
(***************************************************************************)
\* ToolRegistry.register(tool_cls)
Register(tool_cls) ==
    /\ Len(registered) < MaxRegisters
    /\ IF ~tool_cls.tool
       THEN /\ regOut' = [op |-> "register", cls |-> tool_cls, kind |-> "raise"]
            /\ UNCHANGED <<registry, registered>>
       ELSE /\ registry' = DictSet(registry, tool_cls.name, tool_cls)
            /\ registered' = Append(registered, tool_cls)
            /\ regOut' = [op |-> "register", cls |-> tool_cls, kind |-> "return"]
    /\ UNCHANGED <<agentVars, grep, lib, edit, driver, gemini, cacheFile>>

ListTools ==
    /\ regOut' = [op |-> "list_tools", value |-> list_tools(registry)]
    /\ UNCHANGED <<agentVars, grep, lib, registry, registered, edit, driver, gemini, cacheFile>>

ToolDefinitions ==
    /\ regOut' = [op |-> "definitions", value |-> GetToolDefinitions(registry)]
    /\ UNCHANGED <<agentVars, grep, lib, registry, registered, edit, driver, gemini, cacheFile>>

\* ToolRegistry.run(name): get raises KeyError, or the class found is
\* instantiated and its run gives the result
RegistryRun(name) ==
    /\ regOut' = IF name \in DOMAIN registry.at
                 THEN [op |-> "run", name |-> name, kind |-> "return", ranBy |-> registry.at[name]]
                 ELSE [op |-> "run", name |-> name, kind |-> "raise", exc |-> "KeyError"]
    /\ UNCHANGED <<agentVars, grep, lib, registry, registered, edit, driver, gemini, cacheFile>>

NextRegistry ==
    \/ \E c \in ToolClasses : Register(c)
    \/ ListTools
    \/ ToolDefinitions
    \/ \E n \in {"shell", "probe", "edit"} : RegistryRun(n)

SpecRegistry == Init /\ [][NextRegistry]_vars

(***************************************************************************)
(* The edit tool called directly: ToolRegistry.run("edit", path=...,       *)
(* search_text=..., replace_text=..., yolo=...) on a file that is missing  *)
(* or holds some text.                                                     *)
(***************************************************************************)
\* EditTool.run up to its prompt, or to its end when nothing is asked
EditRun ==
    /\ edit.pc = "call"
    /\ LET e == ToolEntry("edit", edit.args, edit.file)
           b == ToolBody("edit", edit.args, edit.file)
       IN  edit' = CASE e.kind = "result" ->
                          [edit EXCEPT !.pc = "done", !.out = [kind |-> "return", result |-> e.result]]
                     [] e.kind = "prompt" ->
                          [edit EXCEPT !.pc = "prompt", !.asked = @ + 1]
                     [] OTHER ->
                          [edit EXCEPT !.pc = "done", !.file = b.file,
                                       !.out = [kind |-> "return", result |-> b.result]]
    /\ UNCHANGED <<agentVars, grep, lib, registry, registered, regOut, driver, gemini, cacheFile>>

\* "Approve this change?" is answered
EditAnswer(a) ==
    /\ edit.pc = "prompt"
    /\ LET b == ToolBody("edit", edit.args, edit.file)
       IN  edit' = CASE a = "interrupt" ->
                          [edit EXCEPT !.pc = "done", !.answer = a,
                                       !.out = [kind |-> "raise", exc |-> "KeyboardInterrupt"]]
                     [] a = "n" ->
                          [edit EXCEPT !.pc = "done", !.answer = a,
                                       !.out = [kind |-> "return", result |-> ToolRejects("edit")]]
                     [] OTHER ->
                          [edit EXCEPT !.pc = "done", !.answer = a, !.file = b.file,
                                       !.out = [kind |-> "return", result |-> b.result]]
    /\ UNCHANGED <<agentVars, grep, lib, registry, registered, regOut, driver, gemini, cacheFile>>

NextEdit == EditRun \/ \E a \in Answers : EditAnswer(a)

\* every file of up to MaxLen characters, or none; every search text of up to
\* two characters; yolo passed as True, as False, or left out
InitEdit ==
    /\ Idle
    /\ grep = [pc |-> "off"]
    /\ lib = [pc |-> "off"]
    /\ \E f \in {[exists |-> FALSE, content |-> <<>>]}
                  \cup {[exists |-> TRUE, content |-> c] :
                           c \in UNION {[1..n -> {"a", "b"}] : n \in 0..MaxLen}},
          s \in UNION {[1..n -> {"a", "b"}] : n \in 0..2},
          r \in {<<>>, <<"c">>, <<"a", "a">>},
          y \in {"unset", "true", "false"} :
          edit = [pc |-> "call", file |-> f, before |-> f, asked |-> 0, answer |-> "none",
                  out |-> [kind |-> "none"],
                  args |-> IF y = "unset"
                           THEN [path |-> "f", search_text |-> s, replace_text |-> r]
                           ELSE [path |-> "f", search_text |-> s, replace_text |-> r,
                                 yolo |-> (y = "true")]]

SpecEdit == InitEdit /\ [][NextEdit]_vars

(***************************************************************************)
(* The command-line programs (src/dune/cli.py, src/dune/rich_ui.py) and    *)
(* the Gemini client they reach.  A call on the Agent is seen here from    *)
(* its caller: it is in progress, and it ends by returning, by raising an  *)
(* exception or by a KeyboardInterrupt that nothing below main() catches.  *)
(***************************************************************************)
\* main() from its start to its first wait: --clear-cache (cli.py only),
\* the endpoint and the Agent, then the one-shot call or the first prompt.
\* A process that starts has the class attributes of GeminiClient afresh
Main(ui, argv, unlink) ==
    /\ driver.pc \in {"off", "exited", "ended", "crashed"}
    /\ driver.runs < MaxRuns
    /\ ui = "rich" => (~argv.clear_cache /\ ~argv.prompt /\ argv.llm = "groq")
    \* arguments that are not looked at are left out
    /\ argv.clear_cache => (~argv.prompt /\ argv.llm = "groq" /\ argv.key)
    /\ ~argv.clear_cache => unlink = "ok"
    /\ argv.llm = "gemini" => argv.key
    /\ ~argv.key => ~argv.prompt
    /\ LET d == [driver EXCEPT !.ui = ui, !.oneshot = FALSE, !.llm = "none", !.built = FALSE,
                               !.looped = FALSE, !.shown = <<>>, !.end = "none", !.at = "none",
                               !.asked = 0, !.runs = @ + 1,
                               !.prev = IF driver.shown = <<"cleared">> THEN "clear_cache"
                                        ELSE "other"]
           c == clear_cache(NoClient, cacheFile, unlink)
       IN  IF argv.clear_cache
           THEN /\ driver' = [d EXCEPT !.pc = "exited", !.shown = <<"cleared">>]
                /\ gemini' = c.gemini
                /\ cacheFile' = c.file
           ELSE /\ gemini' = NoClient
                /\ UNCHANGED cacheFile
                /\ driver' =
                      IF argv.llm = "groq" /\ ~argv.key
                      THEN [d EXCEPT !.pc = "exited", !.shown = <<"no_key">>]
                      ELSE IF argv.prompt
                      THEN [d EXCEPT !.pc = "call", !.llm = argv.llm, !.built = TRUE,
                                     !.oneshot = TRUE, !.asked = 1]
                      ELSE [d EXCEPT !.pc = "input", !.llm = argv.llm, !.built = TRUE,
                                     !.looped = TRUE]
    /\ UNCHANGED <<agentVars, grep, lib, registry, registered, regOut, edit>>

\* the prompt of the interactive loop is answered: exit, Ctrl-C, or a prompt
\* for the Agent
Input(x) ==
    /\ driver.pc = "input"
    /\ driver' =
          CASE x = "exit" ->
                 [driver EXCEPT !.pc = "ended", !.end = "none", !.at = "none",
                                !.shown = <<"session_ended">>]
            [] x = "interrupt" ->
                 [driver EXCEPT !.pc = "ended", !.end = "interrupt", !.at = "input",
                                !.shown = (IF driver.ui = "cli" THEN <<"exiting">> ELSE <<>>)
                                            \o <<"session_ended">>]
            [] OTHER ->
                 [driver EXCEPT !.pc = "call", !.asked = @ + 1, !.end = "none", !.at = "none",
                                !.shown = <<>>]
    /\ x = "p" => driver.asked < MaxPrompts
    /\ UNCHANGED <<agentVars, grep, lib, registry, registered, regOut, edit, gemini, cacheFile>>

\* the call in progress ends: agent.execute returns or the generator of
\* execute_stream is exhausted ("ok"), an Exception leaves the call, or a
\* KeyboardInterrupt does, raised during a model call, while a stream is
\* consumed or at an approval prompt
CallEnds(how, at) ==
    /\ driver.pc = "call"
    /\ how = "ok" => gemini.pc = "idle"
    /\ how = "interrupt" <=> at # "none"
    /\ (at = "stream") => ~driver.oneshot
    /\ driver' =
          IF driver.oneshot
          THEN IF how = "ok"
               THEN [driver EXCEPT !.pc = "exited", !.end = how, !.shown = <<"answer">>]
               ELSE [driver EXCEPT !.pc = "crashed", !.end = how, !.at = at,
                                   !.shown = <<"traceback">>]
          ELSE CASE how = "ok" ->
                      [driver EXCEPT !.pc = "input", !.end = how, !.shown = <<"answer">>]
                 [] how = "interrupt" ->
                      [driver EXCEPT !.pc = "ended", !.end = how, !.at = at,
                                     !.shown = (IF driver.ui = "cli" THEN <<"exiting">>
                                                ELSE <<>>) \o <<"session_ended">>]
                 [] OTHER ->
                      IF driver.ui = "cli"
                      THEN [driver EXCEPT !.pc = "input", !.end = how,
                                          !.shown = <<"failure">>]
                      ELSE [driver EXCEPT !.pc = "ended", !.end = how,
                                          !.shown = <<"failure", "session_ended">>]
    /\ gemini' = IF gemini.pc = "idle" THEN gemini
                 ELSE [gemini EXCEPT !.pc = "idle", !.out = [kind |-> "raise"]]
    /\ UNCHANGED <<agentVars, grep, lib, registry, registered, regOut, edit, cacheFile>>

\* a GeminiClient with fresh credentials and the project id given
NewClient(g, refresh_token, project_id) ==
    [g EXCEPT !.instance = g.made + 1, !.made = @ + 1, !.initialized = TRUE,
              !.refresh_token = refresh_token, !.project_id = project_id, !.pc = "idle",
              !.out = [kind |-> "return", instance |-> g.made + 1, project_id |-> project_id]]

\* GeminiClient.create() up to its return or its first request, in
\* gemini_client.py and in client.py: the instance held is returned (its
\* credentials valid, or refreshed), or credentials are obtained and the
\* cached project id is looked for; without one the loadCodeAssist request
\* of the onboarding goes out.  An instance held with credentials that are
\* invalid and carry no refresh token is dropped and built anew by
\* gemini_client.py, and returned as it is by client.py
create(module, g0, file, valid, refresh, auth) ==
    LET g == [g0 EXCEPT !.creates = @ + 1, !.polls = 0, !.credentials = "none",
                        !.answered = [kind |-> "none", id |-> "None"]]
        held == g.instance # 0 /\ g.initialized
        returned == [g EXCEPT !.out = [kind |-> "return", instance |-> g.instance,
                                       project_id |-> g.project_id]]
        dropped == [g EXCEPT !.instance = 0, !.initialized = FALSE]
        id == _load_cached_project_id(file)
        build(h) ==
            IF auth = "raises" THEN [h EXCEPT !.out = [kind |-> "raise"]]
            ELSE IF id # "None"
            THEN NewClient(h, auth = "refreshable", id)
            ELSE [h EXCEPT !.pc = "load", !.credentials = auth]
    IN  IF held
        THEN IF valid THEN returned
             ELSE IF g.refresh_token
             THEN IF refresh = "ok" THEN returned
                  ELSE [g EXCEPT !.out = [kind |-> "raise"]]
             ELSE IF module = "client" THEN returned ELSE build(dropped)
        ELSE build(g)

\* GeminiLLMEndpoint.generate calls GeminiClient.create() of gemini_client.py
Create(valid, refresh, auth) ==
    /\ driver.pc = "call" /\ driver.llm = "gemini"
    /\ gemini.pc = "idle"
    /\ gemini.creates < MaxCreates
    /\ gemini' = create("gemini_client", gemini, cacheFile, valid, refresh, auth)
    /\ UNCHANGED <<agentVars, grep, lib, registry, registered, regOut, edit, driver, cacheFile>>

\* the loadCodeAssist request is answered, or fails in transport
LoadAnswered(ok) ==
    /\ gemini.pc = "load"
    /\ gemini' = IF ok THEN [gemini EXCEPT !.pc = "poll"]
                 ELSE [gemini EXCEPT !.pc = "idle", !.out = [kind |-> "raise"]]
    /\ UNCHANGED <<agentVars, grep, lib, registry, registered, regOut, edit, driver, cacheFile>>

\* a variant in which a done answer without a project id is polled again
PollAnsweredWaitsForId(answer_, save) ==
    /\ gemini.pc = "poll"
    /\ answer_.kind = "pending" => gemini.polls < MaxPolls
    /\ LET g == [gemini EXCEPT !.polls = @ + 1, !.answered = answer_]
           got == answer_.kind = "done" /\ answer_.id # "None"
       IN  /\ gemini' =
                 CASE answer_.kind \in {"pending", "done"} /\ ~got -> g
                   [] got ->
                        NewClient(g, g.credentials = "refreshable", answer_.id)
                   [] OTHER -> [g EXCEPT !.pc = "idle", !.out = [kind |-> "raise"]]
           /\ cacheFile' = IF got THEN _save_project_id(cacheFile, answer_.id, save)
                           ELSE cacheFile
    /\ UNCHANGED <<agentVars, grep, lib, registry, registered, regOut, edit, driver>>

\* an onboardUser poll is answered: not done (the loop sleeps and polls
\* again), done with or without a project id, or a transport failure.  A
\* project id is saved and the client is constructed with it; answered is
\* the answer the last poll got
PollAnswered(answer_, save) ==
    /\ gemini.pc = "poll"
    /\ answer_.kind = "pending" => gemini.polls < MaxPolls
    /\ LET g == [gemini EXCEPT !.polls = @ + 1, !.answered = answer_]
           got == answer_.kind = "done" /\ answer_.id # "None"
       IN  /\ gemini' =
                 CASE answer_.kind = "pending" -> g
                   [] got ->
                        NewClient(g, g.credentials = "refreshable", answer_.id)
                   [] OTHER -> [g EXCEPT !.pc = "idle", !.out = [kind |-> "raise"]]
           /\ cacheFile' = IF got THEN _save_project_id(cacheFile, answer_.id, save)
                           ELSE cacheFile
    /\ UNCHANGED <<agentVars, grep, lib, registry, registered, regOut, edit, driver>>

NextCli ==
    \/ \E ui \in {"cli", "rich"}, unlink \in {"ok", "raises"},
          argv \in [clear_cache : BOOLEAN, prompt : BOOLEAN, llm : {"gemini", "groq"},
                    key : BOOLEAN] : Main(ui, argv, unlink)
    \/ \E x \in {"exit", "interrupt", "p"} : Input(x)
    \/ \E how \in {"ok", "error", "interrupt"},
          at \in {"none", "model_call", "stream", "prompt"} : CallEnds(how, at)
    \/ \E valid \in BOOLEAN, refresh \in {"ok", "raises"},
          auth \in {"refreshable", "unrefreshable", "raises"} : Create(valid, refresh, auth)
    \/ \E ok \in BOOLEAN : LoadAnswered(ok)
    \/ \E a \in {[kind |-> "pending", id |-> "None"], [kind |-> "failure", id |-> "None"],
                 [kind |-> "done", id |-> "None"], [kind |-> "done", id |-> "p1"],
                 [kind |-> "done", id |-> "p2"]},
          save \in {"ok", "unopened", "cut"} : PollAnswered(a, save)

SpecCli == Init /\ [][NextCli]_vars

(***************************************************************************)
(* GeminiClient used as a library: a caller imports the class from         *)
(* dune.gemini_client or from dune.client and calls create and clear_cache *)
(* on it in one process, in any order.  The credentials an instance holds  *)
(* may have expired at any call.                                           *)
(***************************************************************************)
InitClient ==
    /\ Idle
    /\ edit = [pc |-> "off"]
    /\ grep = [pc |-> "off"]
    /\ \E m \in {"gemini_client", "client"} :
          lib = [pc |-> "on", module |-> m, clears |-> 0, valid |-> TRUE, refresh |-> "ok"]

\* GeminiClient.create() called by the library's user
LibCreate(valid, refresh, auth) ==
    /\ lib.pc = "on"
    /\ gemini.pc = "idle"
    /\ gemini.creates < MaxCreates
    /\ gemini' = create(lib.module, gemini, cacheFile, valid, refresh, auth)
    /\ lib' = [lib EXCEPT !.valid = valid, !.refresh = refresh]
    /\ UNCHANGED <<agentVars, grep, registry, registered, regOut, edit, driver, cacheFile>>

\* GeminiClient.clear_cache() called by the library's user
LibClearCache(unlink) ==
    /\ lib.pc = "on"
    /\ gemini.pc = "idle"
    /\ lib.clears < MaxCreates
    /\ LET c == clear_cache(gemini, cacheFile, unlink)
       IN  /\ gemini' = [c.gemini EXCEPT !.out = [kind |-> "none"]]
           /\ cacheFile' = c.file
    /\ lib' = [lib EXCEPT !.clears = @ + 1]
    /\ UNCHANGED <<agentVars, grep, registry, registered, regOut, edit, driver>>

NextClient ==
    \/ \E valid \in BOOLEAN, refresh \in {"ok", "raises"},
          auth \in {"refreshable", "unrefreshable", "raises"} : LibCreate(valid, refresh, auth)
    \/ \E unlink \in {"ok", "raises"} : LibClearCache(unlink)
    \/ \E ok \in BOOLEAN : LoadAnswered(ok)
    \/ \E a \in {[kind |-> "pending", id |-> "None"], [kind |-> "failure", id |-> "None"],
                 [kind |-> "done", id |-> "None"], [kind |-> "done", id |-> "p1"],
                 [kind |-> "done", id |-> "p2"]},
          save \in {"ok", "unopened", "cut"} : PollAnswered(a, save)

SpecClient == InitClient /\ [][NextClient]_vars

\* the backend answers every request that is out, and requests.post returns
\* or raises: a poll that is waited for is answered
SpecOnboarding ==
    /\ InitClient
    /\ [][NextClient]_vars
    /\ WF_vars(\E ok \in BOOLEAN : LoadAnswered(ok))
    /\ WF_vars(\E a \in {[kind |-> "failure", id |-> "None"], [kind |-> "done", id |-> "None"],
                          [kind |-> "done", id |-> "p1"], [kind |-> "done", id |-> "p2"]},
                   save \in {"ok", "unopened", "cut"} : PollAnswered(a, save))

(***************************************************************************)
(* The grep tool called directly: ToolRegistry.run("grep", query=...,      *)
(* paths=[...]).  A path names no file, a file that cannot be opened, a    *)
(* file with a matching line or a file without one.                        *)
(***************************************************************************)
InitGrep ==
    /\ Idle
    /\ edit = [pc |-> "off"]
    /\ lib = [pc |-> "off"]
    /\ \E files \in [{"a", "b", "c"} -> {"absent", "denied", "hit", "miss"}],
          paths \in UNION {[1..n -> {"a", "b", "c"}] : n \in 0..MaxPaths} :
          grep = [pc |-> "loop", files |-> files, paths |-> paths, i |-> 1,
                  results |-> [k \in {} |-> 0], out |-> [k \in {} |-> 0]]

\* GrepTool.run: one iteration of `for path_str in paths`, or the return
\* after the last; an exception raised by open leaves the loop for the
\* except clause around it, which returns {"error": str(e)}
GrepStep ==
    /\ grep.pc = "loop"
    /\ LET path_str == grep.paths[grep.i]
           put(v) == [grep EXCEPT !.i = @ + 1,
                                  !.results = [k \in DOMAIN grep.results \cup {path_str} |->
                                                  IF k = path_str THEN v ELSE grep.results[k]]]
       IN  grep' =
              IF grep.i > Len(grep.paths)
              THEN [grep EXCEPT !.pc = "done", !.out = grep.results]
              ELSE CASE grep.files[path_str] = "absent" ->
                          put([error |-> "Path is not a valid file."])
                     [] grep.files[path_str] = "denied" ->
                          [grep EXCEPT !.pc = "done",
                                       !.out = [k \in {"error"} |->
                                                   [text |-> "[Errno 13] Permission denied"]]]
                     [] grep.files[path_str] = "hit" -> put([matches |-> <<"1: x">>])
                     [] OTHER -> put([text |-> "No matches found."])
    /\ UNCHANGED <<agentVars, registry, registered, regOut, edit, driver, gemini, cacheFile, lib>>

SpecGrep == InitGrep /\ [][GrepStep]_vars

(***************************************************************************)
(* Notions the properties below are stated with.                           *)
(***************************************************************************)
World == <<fs, shellRuns>>

PromptPcs == {"b_gate", "b_tool", "s_gate", "s_tool"}

ModelCallPcs == {"b_await", "s_stream", "s_ytext"}

IsToolCallTurn(t) ==
    \/ t.role = "model" /\ "function_call" \in DOMAIN t.parts
    \/ t.role = "assistant" /\ "tool_calls" \in DOMAIN t

NRequested(t) == IF t.role = "model" THEN 1 ELSE Len(t.tool_calls)

IsResultOf(r, t, k) ==
    IF t.role = "model"
    THEN r.role = "function" /\ r.name = t.parts.function_call.name
    ELSE r.role = "tool" /\ r.tool_call_id = t.tool_calls[k].id /\ r.name = t.tool_calls[k].name

\* what follows a tool-call turn in h is, as far as h goes, its results in order
Followed(h) ==
    \A i \in 1..Len(h) :
        IsToolCallTurn(h[i]) =>
            \A k \in 1..NRequested(h[i]) : i + k <= Len(h) => IsResultOf(h[i + k], h[i], k)

\* every tool-call turn of h has all its results in h
Answered(h) ==
    \A i \in 1..Len(h) : IsToolCallTurn(h[i]) => i + NRequested(h[i]) <= Len(h)

IsResultTurn(t) == t.role \in {"function", "tool"}

ResultTurns(h) == SelectSeq(h, IsResultTurn)

\* the result a result turn carries
TurnPayload(t) ==
    IF t.role = "function" THEN t.response
    ELSE IF "json" \in DOMAIN t.content THEN t.content.json
    ELSE [error |-> t.content.text]

Rejected(c) == c.gate = "n" \/ c.inner = "n"

\* a step in which the user answers no to an approval prompt
RejectStep == pc \in PromptPcs /\ answer' = "n"

TurnLimitOutcome == [kind |-> "return", value |-> TurnLimitMsg]

(***************************************************************************)
(* C1.  A model turn that requests N tool calls is followed in history by  *)
(* exactly its N result turns, in request order and with matching ids,     *)
(* before any user turn is appended and before any model call is issued,   *)
(* also after calls that ended by an exception.                            *)
(***************************************************************************)
C1_ToolCallsAnswered ==
    /\ Followed(history)
    /\ pc \in ModelCallPcs => Followed(lastInput) /\ Answered(lastInput)

(***************************************************************************)
(* C2.  With yolo=True no approval prompt is issued, neither by the Agent  *)
(* nor inside a tool's run.                                                *)
(***************************************************************************)
C2_NoPromptInYolo == yolo => prompts = <<>>

(***************************************************************************)
(* C3.  With yolo=False the effect of a dangerous tool happens only in the *)
(* step that answers a pending prompt of that same call, the Agent's       *)
(* prompt for the call having been answered y; no call has an effect       *)
(* while one of its prompts is pending.                                    *)
(***************************************************************************)
C3_EffectOnlyAfterApproval ==
    /\ [](cur # NoCall /\ (cur.gate = "pending" \/ cur.inner = "pending") => ~cur.effect)
    /\ [][(~yolo /\ World' # World) =>
             /\ pc \in PromptPcs
             /\ answer' = "y"
             /\ Len(done') = Len(done) + 1
             /\ LET c == done'[Len(done')].call
                IN  /\ c.name = cur.name /\ c.id = cur.id /\ c.args = cur.args
                    /\ c.name \in DANGEROUS_TOOLS
                    /\ c.gate = "y"
                    /\ c.effect]_vars

C3_Witness ==
    /\ ~yolo
    /\ \E k \in 1..Len(done) :
          done[k].call.name \in DANGEROUS_TOOLS /\ done[k].call.effect /\ done[k].call.gate = "y"
    /\ World # <<InitialFile, 0>>

(***************************************************************************)
(* C4.  A no to an approval prompt of a dangerous call leaves the file and *)
(* the shell untouched, the call's result is an error, and the history the *)
(* next model call is given holds that error as the call's result turn.    *)
(***************************************************************************)
C4_RejectionHasNoEffect ==
    /\ [](\A k \in 1..Len(done) :
             Rejected(done[k].call) =>
                 ~done[k].call.effect /\ "error" \in DOMAIN done[k].result)
    /\ [](pc \in ModelCallPcs =>
             LET rt == ResultTurns(lastInput)
             IN  /\ Len(rt) >= Len(done)
                 /\ \A k \in 1..Len(done) :
                       Rejected(done[k].call) =>
                           TurnPayload(rt[Len(rt) - Len(done) + k]) = done[k].result)
    /\ [][RejectStep =>
             /\ World' = World
             /\ Len(done') = Len(done) + 1
             /\ Rejected(done'[Len(done')].call)
             /\ "error" \in DOMAIN done'[Len(done')].result]_vars

C4_Witness ==
    /\ pc \in ModelCallPcs
    /\ \E k \in 1..Len(done) :
          /\ Rejected(done[k].call)
          /\ done[k].call.name \in DANGEROUS_TOOLS
          /\ TurnPayload(ResultTurns(lastInput)[Len(ResultTurns(lastInput)) - Len(done) + k])
                = done[k].result

(***************************************************************************)
(* C5.  A no does not end the call: the rejection becomes the call's       *)
(* result, the loop takes the turn's next tool call or, after the last     *)
(* one, issues the next model call with a history that ends with the       *)
(* turn's results when turns remain; the call ends in that step only by    *)
(* turn exhaustion.                                                        *)
(***************************************************************************)
C5_RejectionContinues ==
    [][RejectStep =>
         /\ endedBy' \in {"none", "exhausted"}
         /\ endedBy' = "exhausted" => turn = max_turns
         /\ (mode = "blocking" /\ turn < max_turns) => pc' = "b_await"
         /\ (mode = "stream" /\ pos < Len(tool_calls)) => pc' \in {"s_ynote", "s_yerr"}
         /\ (mode = "stream" /\ pos = Len(tool_calls) /\ turn < max_turns) => pc' = "s_stream"
         /\ pc' \in ModelCallPcs =>
               /\ modelCalls' = modelCalls + 1
               /\ lastInput' = history'
               /\ \E i \in 1..Len(history') :
                     /\ IsResultTurn(history'[i])
                     /\ i > Len(history)
                     /\ Rejected(done'[Len(done')].call)
                     /\ \E k \in 1..Len(done') : Rejected(done'[k].call)
                           /\ TurnPayload(history'[i]) = done'[k].result]_vars

C5_Witness ==
    /\ pc \in ModelCallPcs
    /\ modelCalls >= 2
    /\ answer = "n"
    /\ \E k \in 1..Len(done) : Rejected(done[k].call)

(***************************************************************************)
(* C6.  When every reply requests a tool call, execute issues exactly      *)
(* max_turns model calls and then returns the turn-limit error.            *)
(***************************************************************************)
C6_ExactlyMaxTurns ==
    (mode = "blocking" /\ pc = "idle" /\ endedBy \in {"exhausted", "raise_tool"}) =>
        modelCalls = max_turns /\ outcome = TurnLimitOutcome

(***************************************************************************)
(* C7.  What execute reports on turn exhaustion differs from what it       *)
(* reports on a malformed reply, whatever the payload.                     *)
(***************************************************************************)
C7_TurnLimitDistinct ==
    /\ endedBy = "malformed" => outcome # TurnLimitOutcome
    /\ (endedBy = "exhausted" /\ mode = "blocking") =>
           \A p \in MalformedPayloads :
               outcome # [kind |-> "return", value |-> InvalidResponseMsg(p)]

C7_Witness == endedBy = "malformed" /\ outcome.kind = "return"

(***************************************************************************)
(* C8.  A call that used up max_turns ends in an outcome that no call      *)
(* ending with a final model text ends in.                                 *)
(***************************************************************************)
FinalTextOutcomes ==
    IF mode = "stream" THEN {[kind |-> "stop"]}
    ELSE {[kind |-> "return", value |-> t] : t \in Texts}

C8_ExhaustionIsFailure ==
    (endedBy = "exhausted" /\ max_turns >= 1) => outcome \notin FinalTextOutcomes

(***************************************************************************)
(* C9.  A model call that fails at transport level ends the call with an   *)
(* exception and appends nothing to history.                               *)
(***************************************************************************)
C9_TransportFailureIsFatal ==
    lastReply.kind = "failure" =>
        pc = "idle" /\ outcome.kind = "raise" /\ history = lastInput

(***************************************************************************)
(* C10.  A blocking reply with neither a function call nor text ends       *)
(* execute in that step with an error that shows the payload; nothing is   *)
(* appended to history, no tool runs, no prompt and no model call is       *)
(* issued.                                                                 *)
(***************************************************************************)
C10_MalformedReplyEnds ==
    /\ [](lastReply.kind = "malformed" =>
             /\ pc = "idle"
             /\ endedBy = "malformed"
             /\ history = lastInput
             /\ "value" \in DOMAIN outcome
             /\ outcome.value \in {InvalidResponseMsg(lastReply.payload),
                                   "Failed to parse response from Gemini: "
                                       \o Repr(lastReply.payload)})
    /\ [][lastReply'.kind = "malformed" /\ pc = "b_await" =>
             /\ history' = history
             /\ World' = World
             /\ prompts' = prompts
             /\ done' = done
             /\ modelCalls' = modelCalls]_vars

C10_Witness == lastReply.kind = "malformed" /\ pc = "idle" /\ modelCalls >= 1

(***************************************************************************)
(* C11.  A request for a tool name that is not in the registry does not    *)
(* abort the call, in either mode: the request gets an error as its tool   *)
(* result and the call does not end by the lookup's exception.             *)
(***************************************************************************)
UnknownTool(c) == c # NoCall /\ c.name \notin RegisteredTools

C11_UnknownToolIsResult ==
    /\ \A k \in 1..Len(done) :
          UnknownTool(done[k].call) => "error" \in DOMAIN done[k].result
    /\ (pc = "idle" /\ UnknownTool(cur) /\ endedBy \in {"raise_tool", "exhausted"}) =>
          /\ endedBy = "exhausted"
          /\ done # <<>> /\ done[Len(done)].call = cur

(***************************************************************************)
(* C12.  Arguments that do not fit the tool's parameters come back to the  *)
(* model as the call's tool-result error, with a message, in either mode;  *)
(* the call does not end with the tool-call turn left without a result.    *)
(***************************************************************************)
MisfitArgs(c) ==
    c # NoCall /\ c.name \in RegisteredTools /\ Required(c.name) \ DOMAIN c.args # {}

C12_ArgumentErrorIsResult ==
    /\ \A k \in 1..Len(done) :
          MisfitArgs(done[k].call) =>
              "error" \in DOMAIN done[k].result /\ done[k].result.error # ""
    /\ (pc = "idle" /\ MisfitArgs(cur) /\ cur.gate # "n" /\ endedBy = "raise_tool") =>
          Answered(history)

(***************************************************************************)
(* C13.  An error payload returned by an invoked tool (read_file on a path *)
(* that does not exist) becomes the call's result: the step that records   *)
(* it ends the call only by turn exhaustion, and the history handed to     *)
(* each later model call of the call holds the payload, which names the    *)
(* path, as a result turn of that tool.                                    *)
(***************************************************************************)
ToolReturnedError(d) ==
    /\ d.call.name \in RegisteredTools
    /\ ~MisfitArgs(d.call)
    /\ ~Rejected(d.call)
    /\ "error" \in DOMAIN d.result

C13_ToolErrorFedBack ==
    /\ [](pc \in ModelCallPcs =>
             \A k \in 1..Len(done) :
                 ToolReturnedError(done[k]) =>
                     \E i \in 1..Len(lastInput) :
                         /\ IsResultTurn(lastInput[i])
                         /\ lastInput[i].name = done[k].call.name
                         /\ TurnPayload(lastInput[i]) = done[k].result)
    /\ [][(Len(done') = Len(done) + 1 /\ ToolReturnedError(done'[Len(done')])) =>
             /\ endedBy' \in {"none", "exhausted"}
             /\ endedBy' = "exhausted" => turn = max_turns
             /\ (mode = "blocking" /\ turn < max_turns) => pc' = "b_await"
             /\ done'[Len(done')].call.name = "read_file" =>
                   done'[Len(done')].result.error =
                       "File '" \o done'[Len(done')].call.args.path
                           \o "' does not exist at '../"
                           \o done'[Len(done')].call.args.path \o "'."]_vars

C13_Witness ==
    /\ pc \in ModelCallPcs
    /\ modelCalls >= 2
    /\ \E k \in 1..Len(done) :
          /\ ToolReturnedError(done[k])
          /\ done[k].call.name = "read_file"
          /\ \E i \in 1..Len(lastInput) :
                IsResultTurn(lastInput[i]) /\ TurnPayload(lastInput[i]) = done[k].result

(***************************************************************************)
(* C14.  When the first reply to execute(prompt) is a text reply, execute  *)
(* returns exactly that text after one model call, no tool runs and no     *)
(* prompt is issued, and history has grown by the user turn followed by    *)
(* the model text turn.                                                    *)
(***************************************************************************)
FirstReplyIsText == mode = "blocking" /\ modelCalls = 1 /\ lastReply.kind = "text"

C14_FirstTextReturned ==
    /\ [](FirstReplyIsText =>
             /\ pc = "idle"
             /\ outcome = [kind |-> "return", value |-> lastReply.text]
             /\ prompts = <<>>
             /\ done = <<>>
             /\ Len(history) >= 2
             /\ history[Len(history) - 1] = [role |-> "user", parts |-> arg_prompt]
             /\ history[Len(history)] = [role |-> "model", parts |-> [text |-> lastReply.text]])
    /\ [][(pc = "b_await" /\ modelCalls = 1 /\ lastReply'.kind = "text") =>
             /\ history' = Append(history, [role |-> "model", parts |-> [text |-> lastReply'.text]])
             /\ lastInput = history
             /\ World' = World
             /\ modelCalls' = 1]_vars
    /\ [][(pc = "idle" /\ pc' = "b_await") =>
             history' = Append(history, [role |-> "user", parts |-> arg_prompt'])]_vars

C14_Witness == FirstReplyIsText /\ pc = "idle" /\ nCalls = 2 /\ Len(history) > 2

(***************************************************************************)
(* C15.  For every chunk sequence of a streaming turn the argument text of *)
(* each assembled tool call is the concatenation, in arrival order, of the *)
(* argument fragments that carried the call's index; there is one          *)
(* assembled call per index; and the text is parsed, as one JSON value,    *)
(* only once the stream has ended.                                         *)
(***************************************************************************)
RECURSIVE ArgsOf(_, _)
ArgsOf(frags, i) ==
    IF frags = <<>> THEN ""
    ELSE (IF Head(frags).index = i THEN Head(frags).arguments ELSE "") \o ArgsOf(Tail(frags), i)

IndicesOf(frags) == {frags[k].index : k \in 1..Len(frags)}

C15_ArgumentsConcatenated ==
    /\ \A i \in IndicesOf(received) :
          \E k \in 1..Len(tool_calls) : tool_calls[k].arguments = ArgsOf(received, i)
    /\ Len(tool_calls) = Cardinality(IndicesOf(received))
    /\ pc \in {"s_stream", "s_ytext"} =>
          \A k \in 1..Len(yielded) : yielded[k].kind = "str" /\ yielded[k].value \in Texts
    /\ pc = "s_ynote" =>
          cur.args = JsonLoads(ArgsOf(received, received[CHOOSE k \in 1..Len(received) :
                                          received[k].id = cur.id].index)).value

(***************************************************************************)
(* C16.  In a streaming turn a call whose merged argument text is not      *)
(* valid JSON gets an error as its own result and is not invoked: no       *)
(* effect, no prompt.  The calls before it have their own results, the     *)
(* calls after it are still taken, and after the last call the turn's      *)
(* results, one per call and in order, go to history and the loop goes on. *)
(***************************************************************************)
DispatchPcs == {"s_ynote", "s_yerr", "s_gate", "s_tool"}

OwnResults(outs, calls) ==
    \A k \in 1..Len(outs) :
        outs[k].tool_call_id = calls[k].id /\ outs[k].name = calls[k].name

C16_BadArgumentsScoped ==
    /\ [](pc \in DispatchPcs =>
             /\ Len(tool_outputs) = pos - 1
             /\ OwnResults(tool_outputs, tool_calls))
    /\ [][(pc = "s_yerr" /\ endedBy' # "closed") =>
             /\ World' = World
             /\ prompts' = prompts
             /\ done' = Append(done, [call |-> cur,
                                      result |-> [error |-> InvalidJsonMsg(cur.name,
                                                      tool_calls[pos].arguments)]])
             /\ ~cur.effect
             /\ endedBy' \in {"none", "exhausted"}
             /\ pos < Len(tool_calls) => pc' \in {"s_ynote", "s_yerr"} /\ pos' = pos + 1
             /\ (pos = Len(tool_calls) /\ turn < max_turns) => pc' = "s_stream"]_vars
    /\ [][(pc \in DispatchPcs /\ pc' \notin DispatchPcs /\ endedBy' \in {"none", "exhausted"}) =>
             /\ Len(history') = Len(history) + Len(tool_calls)
             /\ OwnResults(SubSeq(history', Len(history) + 1, Len(history')), tool_calls)
             /\ endedBy' = "exhausted" => turn = max_turns]_vars

IsBadArguments(d) == d.result = [error |-> InvalidJsonMsg(d.call.name, "{\"command\":")]

C16_Witness ==
    /\ pc = "s_stream"
    /\ Len(done) = 2
    /\ IsBadArguments(done[1])
    /\ done[2].call.name = "read_file" /\ ToolReturnedError(done[2])
    /\ Len(history) = 4 /\ history[3].role = "tool" /\ history[4].role = "tool"

(***************************************************************************)
(* C17.  Within a turn of execute_stream the caller receives text items    *)
(* first and tool-call notifications after them: once a notification was   *)
(* delivered, no text item follows in that turn, whatever the chunks and   *)
(* whichever calls have valid arguments.                                   *)
(***************************************************************************)
C17_TextBeforeNotifications ==
    \A j, k \in 1..Len(yielded) :
        (j < k /\ yielded[j].kind = "dict") => yielded[k].kind = "dict"

(***************************************************************************)
(* C18.  When a streaming turn ends with no tool call assembled,           *)
(* execute_stream appends exactly one assistant turn, whose content is the *)
(* concatenation in order of the text items it delivered in that turn,     *)
(* and ends without another model call.                                    *)
(***************************************************************************)
RECURSIVE ConcatText(_)
ConcatText(items) ==
    IF items = <<>> THEN ""
    ELSE (IF Head(items).kind = "str" THEN Head(items).value ELSE "") \o ConcatText(Tail(items))

C18_FinalTextTurn ==
    [][(pc = "s_stream" /\ lastReply'.kind = "end" /\ tool_calls = <<>>) =>
          /\ history' = Append(history, [role |-> "assistant", content |-> ConcatText(yielded)])
          /\ yielded' = yielded
          /\ pc' = "idle"
          /\ outcome' = [kind |-> "stop"]
          /\ endedBy' = "text"
          /\ modelCalls' = modelCalls]_vars

C18_Witness ==
    /\ mode = "stream" /\ endedBy = "text" /\ lastReply.kind = "end"
    /\ Len(yielded) = 2
    /\ history[Len(history)] = [role |-> "assistant", content |-> "hihi"]

(***************************************************************************)
(* C19.  A tool call dispatched in streaming mode takes the path it takes  *)
(* in blocking mode: for the same name, arguments, yolo flag, registry,    *)
(* files and user answers, both modes issue the same previews and prompts, *)
(* run or skip the tool alike and record the same result, or fail alike.   *)
(***************************************************************************)
\* the state a blocking call would be in with the same call in hand
AsBlocking(s) == [s EXCEPT !.mode = "blocking", !.pc = "b_await"]

\* what the dispatch of the call taken after n completed calls has come to
Dispatched(x, n) ==
    LET c == IF Len(x.done) > n THEN x.done[n + 1].call ELSE x.cur
    IN  [prompts  |-> x.prompts,
         preview  |-> c.preview,
         gate     |-> c.gate,
         inner    |-> c.inner,
         effect   |-> c.effect,
         fs       |-> x.fs,
         shell    |-> x.shellRuns,
         failed   |-> x.outcome.kind = "raise",
         recorded |-> IF Len(x.done) > n THEN <<x.done[n + 1].result>> ELSE <<>>]

SameDispatch(sx, bx, n) == Dispatched(sx, n) = Dispatched(bx, n)

C19_SameDispatchPath ==
    pc = "s_ynote" =>
        LET n  == Len(done)
            s1 == ExecuteTool(S)
            b1 == BFunctionCall(AsBlocking(S),
                                [function_call |-> [name |-> cur.name, args |-> cur.args]])
        IN  /\ SameDispatch(s1, b1, n)
            /\ (s1.pc = "s_tool" /\ b1.pc = "b_tool") =>
                  \A a \in Answers :
                      SameDispatch(SToolAnswered(s1, a), BToolAnswered(b1, a), n)
            /\ (s1.pc = "s_gate" /\ b1.pc = "b_gate") =>
                  \A a \in Answers :
                      LET s2 == SGateAnswered(s1, a)
                          b2 == BGateAnswered(b1, a)
                      IN  /\ SameDispatch(s2, b2, n)
                          /\ (s2.pc = "s_tool" /\ b2.pc = "b_tool") =>
                                \A a2 \in Answers :
                                    SameDispatch(SToolAnswered(s2, a2),
                                                 BToolAnswered(b2, a2), n)

(***************************************************************************)
(* C20.  One loop iteration at a time works on an Agent: while a generator *)
(* is suspended inside a turn, no other call on the Agent has a model call *)
(* or a tool in progress and history is as the suspended turn left it,     *)
(* whatever the caller does with the generators it holds.                  *)
(***************************************************************************)
C20_SingleActiveLoop ==
    parked # NoGen =>
        /\ pc \in {"idle", "s_new"}
        /\ history = parked.locals.history

(***************************************************************************)
(* C21.  History is append-only: every step leaves the turns already in    *)
(* history unchanged and in place and only adds turns at the end, also the *)
(* steps in which a call ends in failure or in turn exhaustion.            *)
(***************************************************************************)
C21_HistoryAppendOnly ==
    [][/\ Len(history') >= Len(history)
       /\ SubSeq(history', 1, Len(history)) = history]_vars

C21_Witness ==
    /\ nCalls = 2
    /\ endedBy \in {"raise_tool", "exhausted", "interrupt"}
    /\ Len(history) >= 4

(***************************************************************************)
(* C22.  Running out of turns ends that call only: an execute call made    *)
(* after one that returned the turn-limit error starts its own count, may  *)
(* issue max_turns model calls of its own, and works on the history        *)
(* accumulated so far.                                                     *)
(***************************************************************************)
C22_TurnLimitPerCall ==
    /\ [](mode = "blocking" =>
             /\ modelCalls = turn /\ turn <= max_turns
             /\ endedBy = "exhausted" => modelCalls = max_turns)
    /\ [][(mode = "blocking" /\ pc = "idle" /\ outcome = TurnLimitOutcome /\ pc' # "idle") =>
             /\ pc' = "b_await"
             /\ turn' = 1 /\ modelCalls' = 1
             /\ history' = Append(history, [role |-> "user", parts |-> arg_prompt'])
             /\ lastInput' = history']_vars

C22_Witness ==
    /\ mode = "blocking" /\ nCalls = 2
    /\ outcome = TurnLimitOutcome
    /\ max_turns = 1 /\ modelCalls = 1
    /\ Len(history) = 6

\* every class stored so far, the imported ones first
AllRegistered == ImportedClasses \o registered

\* the class stored last under a name
LastRegistered(n) ==
    LET i == CHOOSE i \in 1..Len(AllRegistered) :
                 /\ AllRegistered[i].name = n
                 /\ \A j \in (i + 1)..Len(AllRegistered) : AllRegistered[j].name # n
    IN  AllRegistered[i]

(***************************************************************************)
(* C23.  After any sequence of register calls the registry maps each name  *)
(* to the class registered last under it: registering a Tool class under a *)
(* name already held overwrites the entry without an error, and a later    *)
(* run by that name runs the class registered last.                        *)
(***************************************************************************)
C23_LastRegisteredWins ==
    LET names == {AllRegistered[i].name : i \in 1..Len(AllRegistered)}
    IN  /\ DOMAIN registry.at = names
        /\ \A n \in names : registry.at[n] = LastRegistered(n)
        /\ (regOut.op = "register" /\ regOut.cls.tool) =>
              /\ regOut.kind = "return"
              /\ registry.at[regOut.cls.name] = regOut.cls
        /\ (regOut.op = "run" /\ regOut.name \in names) =>
              /\ regOut.kind = "return"
              /\ regOut.ranBy = LastRegistered(regOut.name)

C23_Witness ==
    /\ regOut.op = "run" /\ regOut.name = "shell" /\ regOut.kind = "return"
    /\ regOut.ranBy.impl = "B"
    /\ \E i, j \in 1..Len(registered) :
          /\ i < j
          /\ registered[i] = [name |-> "shell", impl |-> "A", tool |-> TRUE]
          /\ registered[j] = [name |-> "shell", impl |-> "B", tool |-> TRUE]

(***************************************************************************)
(* C24.  list_tools returns one entry per registered name, in the order    *)
(* the names were registered (a name registered again keeps its place and  *)
(* shows the class registered last), and the list is a function of the     *)
(* sequence of register calls alone; the tool schemas handed to the model  *)
(* are in that same order.                                                 *)
(***************************************************************************)
C24_ListInRegistrationOrder ==
    LET names == {AllRegistered[i].name : i \in 1..Len(AllRegistered)}
        first(n) == CHOOSE i \in 1..Len(AllRegistered) :
                        /\ AllRegistered[i].name = n
                        /\ \A j \in 1..(i - 1) : AllRegistered[j].name # n
        rank(n) == Cardinality({m \in names : first(m) <= first(n)})
        \* the list that the sequence of register calls determines
        inOrder == [i \in 1..Cardinality(names) |->
                       LastRegistered(CHOOSE n \in names : rank(n) = i)]
    IN  /\ regOut.op = "list_tools" =>
              /\ {regOut.value[i].name : i \in 1..Len(regOut.value)} = names
              /\ Len(regOut.value) = Cardinality(names)
              /\ \A i, j \in 1..Len(regOut.value) :
                    i < j => first(regOut.value[i].name) < first(regOut.value[j].name)
              /\ \A i \in 1..Len(regOut.value) :
                    regOut.value[i] = LastRegistered(regOut.value[i].name)
              /\ regOut.value = inOrder
        /\ regOut.op = "definitions" =>
              /\ Len(regOut.value) = 1
              /\ regOut.value[1].function_declarations
                   = [i \in 1..Len(inOrder) |->
                         [name |-> inOrder[i].name, of |-> inOrder[i].impl]]

C24_Witness ==
    /\ regOut.op = "definitions"
    /\ Len(regOut.value[1].function_declarations) = 5
    /\ regOut.value[1].function_declarations[3] = [name |-> "shell", of |-> "B"]
    /\ regOut.value[1].function_declarations[5].name = "probe"
    /\ Len(registered) = 3

(***************************************************************************)
(* C25.  An edit whose search_text does not occur in the file's content    *)
(* returns an error result and leaves the file as it was, whether or not   *)
(* yolo is passed, and no approval prompt is issued for it.                *)
(***************************************************************************)
C25_AbsentSearchTextNoChange ==
    (/\ edit.pc # "off"
     /\ edit.before.exists
     /\ ~Occurs(edit.args.search_text, edit.before.content)) =>
        /\ edit.file = edit.before
        /\ edit.asked = 0
        /\ edit.pc = "done" =>
              /\ edit.out.kind = "return"
              /\ DOMAIN edit.out.result = {"error"}

C25_Witness ==
    /\ edit.pc = "done"
    /\ edit.before = [exists |-> TRUE, content |-> <<"a", "b", "a">>]
    /\ edit.args.search_text = <<"b", "b">>
    /\ ArgYolo(edit.args)
    /\ edit.out.kind = "return"
    /\ "error" \in DOMAIN edit.out.result

(***************************************************************************)
(* C26.  A successful edit replaces the first occurrence of search_text    *)
(* with replace_text and leaves the text before it and the text after it,  *)
(* later occurrences included, as they were; an edit on a missing file     *)
(* returns an error and creates no file.                                   *)
(***************************************************************************)
C26_FirstOccurrenceOnly ==
    LET c == edit.before.content
        s == edit.args.search_text
        r == edit.args.replace_text
        at(i) == SubSeq(c, i, i + Len(s) - 1) = s
    IN  /\ (edit.pc = "done" /\ edit.out.kind = "return"
              /\ "success" \in DOMAIN edit.out.result) =>
              /\ edit.before.exists /\ edit.file.exists
              /\ \E i \in 1..(Len(c) - Len(s) + 1) :
                    /\ at(i)
                    /\ \A j \in 1..(i - 1) : ~at(j)
                    /\ SubSeq(edit.file.content, 1, i - 1) = SubSeq(c, 1, i - 1)
                    /\ SubSeq(edit.file.content, i, i + Len(r) - 1) = r
                    /\ SubSeq(edit.file.content, i + Len(r), Len(edit.file.content))
                         = SubSeq(c, i + Len(s), Len(c))
        /\ (edit.pc # "off" /\ ~edit.before.exists) =>
              /\ ~edit.file.exists
              /\ edit.asked = 0
              /\ edit.pc = "done" =>
                    edit.out = [kind |-> "return",
                                result |-> [error |-> "File not found at " \o edit.args.path]]

C26_Witness ==
    /\ edit.pc = "done"
    /\ edit.out.kind = "return"
    /\ "success" \in DOMAIN edit.out.result
    /\ edit.before.content = <<"a", "b", "a">>
    /\ edit.args.search_text = <<"a">>
    /\ edit.args.replace_text = <<"c">>
    /\ edit.file.content = <<"c", "b", "a">>
    /\ edit.answer = "y"

\* the cache file holds what the last successful _save_project_id wrote
Readable(f) == f.exists /\ f.text = DumpProjectId(f.saved) /\ f.saved # "None"

(***************************************************************************)
(* C27.  A KeyboardInterrupt that leaves a running call, raised during a   *)
(* model call, while a stream is consumed or at an approval prompt, in     *)
(* one-shot as in interactive use, is caught by main() and ends in the     *)
(* session-ended state, never in an uncaught exception.                    *)
(***************************************************************************)
C27_InterruptEndsSession ==
    driver.end = "interrupt" =>
        /\ driver.pc = "ended"
        /\ driver.shown[Len(driver.shown)] = "session_ended"

(***************************************************************************)
(* C28.  In the interactive loop an error raised by a call is shown as a   *)
(* failure and the session goes on: the program asks for the next prompt.  *)
(***************************************************************************)
C28_ErrorKeepsSession ==
    (driver.looped /\ driver.end = "error") =>
        /\ driver.pc = "input"
        /\ driver.shown = <<"failure">>

(***************************************************************************)
(* C29.  --clear-cache resets the client instance, deletes the project-id  *)
(* file when it exists and returns from main() with no endpoint, no Agent  *)
(* and no prompt loop; the first create() of the run that follows finds no *)
(* cached project id and starts the onboarding.                            *)
(***************************************************************************)
C29_ClearCacheClears ==
    /\ [](driver.shown = <<"cleared">> =>
             /\ driver.pc = "exited" /\ ~driver.built /\ ~driver.looped
             /\ gemini.instance = 0 /\ ~gemini.initialized
             /\ ~cacheFile.exists)
    /\ [][(driver.prev = "clear_cache" /\ gemini.creates = 0 /\ gemini'.creates = 1) =>
             \/ gemini'.pc = "load"
             \/ gemini'.out.kind = "raise"]_vars

(***************************************************************************)
(* C30.  create() starts the onboarding only when the cache file holds no  *)
(* readable project id, and the cache file is written only in the step     *)
(* that ends a successful onboarding; with a readable id it constructs the *)
(* client without onboarding and without writing the file, and the id the  *)
(* client gets is the id last saved: what _save_project_id wrote is what   *)
(* _load_cached_project_id reads.                                          *)
(***************************************************************************)
C30_CacheReadBeforeOnboarding ==
    /\ [][(gemini.pc = "idle" /\ gemini'.pc = "load") => ~Readable(cacheFile)]_vars
    /\ [][(cacheFile'.exists /\ cacheFile' # cacheFile) =>
             /\ gemini.pc = "poll" /\ gemini'.pc = "idle"
             /\ gemini'.out.kind = "return"
             /\ Readable(cacheFile') => cacheFile'.saved = gemini'.project_id]_vars
    /\ [][(gemini.pc = "idle" /\ gemini'.made > gemini.made) =>
             /\ Readable(cacheFile)
             /\ cacheFile' = cacheFile
             /\ gemini'.project_id = cacheFile.saved
             /\ gemini'.out = [kind |-> "return", instance |-> gemini'.instance,
                               project_id |-> cacheFile.saved]]_vars
    /\ [](Readable(cacheFile) => _load_cached_project_id(cacheFile) = cacheFile.saved)
    /\ []((cacheFile.exists /\ ~Readable(cacheFile)) =>
             _load_cached_project_id(cacheFile) = "None")

C30_Witness ==
    /\ driver.runs = 2
    /\ gemini.creates = 1 /\ gemini.polls = 0 /\ gemini.made = 1
    /\ gemini.out.kind = "return"
    /\ gemini.project_id = "p2"
    /\ cacheFile.text = DumpProjectId("p2")

(***************************************************************************)
(* C31.  grep isolates failures per file: what it returns holds an entry   *)
(* under every path of the list, an error entry for a path that cannot be  *)
(* processed and the search result for every other path, whether it comes  *)
(* before or after a path that failed.                                     *)
(***************************************************************************)
C31_GrepIsolatesFailures ==
    grep.pc = "done" =>
        \A i \in 1..Len(grep.paths) :
            LET p == grep.paths[i]
            IN  /\ p \in DOMAIN grep.out
                /\ grep.files[p] \in {"absent", "denied"} => DOMAIN grep.out[p] = {"error"}
                /\ grep.files[p] = "hit" => grep.out[p] = [matches |-> <<"1: x">>]
                /\ grep.files[p] = "miss" => grep.out[p] = [text |-> "No matches found."]

(***************************************************************************)
(* C32.  In blocking interactive mode a diff preview that cannot be        *)
(* computed (the edit call names no path, or the file cannot be read)      *)
(* does not stand in the way of the approval prompt: the warning is shown, *)
(* the prompt for that call is issued with nothing run yet, and the answer *)
(* decides: a no records the rejection and leaves the file alone, a yes    *)
(* hands the call to ToolRegistry.run, whose outcome is the call's.        *)
(***************************************************************************)
C32_PreviewFailureStillPrompts ==
    [][/\ (/\ mode = "blocking" /\ pc = "b_await" /\ ~yolo
            /\ lastReply'.kind = "function_call"
            /\ cur'.name = "edit"
            /\ ("path" \notin DOMAIN cur'.args \/ ~fs.exists))
           => /\ pc' = "b_gate"
              /\ cur'.preview = [kind |-> "warning"]
              /\ prompts' = Append(prompts, [src |-> "gate", tool |-> "edit"])
              /\ fs' = fs /\ done' = done
       /\ (/\ mode = "blocking" /\ pc = "b_gate"
            /\ cur.name = "edit" /\ cur.preview.kind = "warning")
           => LET run == ToolEntry("edit", cur.args, fs)
              IN  /\ fs' = fs
                  /\ prompts' = prompts
                  /\ answer' = "n" =>
                         /\ Len(done') = Len(done) + 1
                         /\ done'[Len(done')].result = RejectedByUser("edit")
                  /\ answer' = "y" =>
                         /\ run.kind \in {"raise", "result"}
                         /\ run.kind = "raise" =>
                               /\ done' = done
                               /\ outcome' = [kind |-> "raise", exc |-> run.exc]
                         /\ run.kind = "result" =>
                               /\ Len(done') = Len(done) + 1
                               /\ done'[Len(done')].result = run.result
      ]_vars

C32_Witness ==
    /\ mode = "blocking"
    /\ Len(done) = 2
    /\ done[1].call.name = "edit" /\ done[1].call.preview.kind = "warning"
    /\ done[1].call.gate = "n"
    /\ done[2].call.name = "edit" /\ done[2].call.preview.kind = "warning"
    /\ done[2].call.gate = "y"
    /\ ~fs.exists

(***************************************************************************)
(* C33.  The diff shown before the approval prompt of an edit call is the  *)
(* diff between the file's current content and the content the edit would *)
(* write if approved: the current content with the first occurrence of     *)
(* search_text replaced by replace_text.                                   *)
(***************************************************************************)
C33_PreviewShowsProposedContent ==
    (/\ pc = "b_gate" /\ cur.name = "edit" /\ cur.preview.kind = "diff"
     /\ Occurs(cur.args.search_text, fs.content))
        => cur.preview.text =
              unified_diff(fs.content,
                           ReplaceFirst(fs.content, cur.args.search_text, cur.args.replace_text),
                           cur.args.path)

(***************************************************************************)
(* C34.  Whatever the order in which the call indices first appear in the  *)
(* chunks, the accumulator tool_calls holds one entry per distinct index   *)
(* the stream has used, the entry of an index carries the name of the      *)
(* first fragment with that index, and its arguments are the argument      *)
(* texts of all the fragments with that index, in arrival order.           *)
(***************************************************************************)
C34_OneEntryPerIndex ==
    (mode = "stream" /\ received # <<>>) =>
        LET idx == {received[i].index : i \in DOMAIN received}
            first(k) == CHOOSE i \in DOMAIN received :
                            /\ received[i].index = k
                            /\ \A j \in 1..(i - 1) : received[j].index # k
            RECURSIVE args(_, _)
            args(k, n) == IF n = 0 THEN ""
                          ELSE args(k, n - 1)
                                 \o (IF received[n].index = k THEN received[n].arguments ELSE "")
        IN  /\ Len(tool_calls) = Cardinality(idx)
            /\ \A k \in idx :
                  /\ k + 1 \in DOMAIN tool_calls
                  /\ tool_calls[k + 1].name = received[first(k)].name
                  /\ tool_calls[k + 1].arguments = args(k, Len(received))

C36_EmptyArgumentsAreInvalid ==
    /\ [](/\ mode = "stream"
           /\ pc \in {"s_ynote", "s_yerr", "s_gate", "s_tool"}
           /\ tool_calls[pos].arguments = ""
           => /\ pc = "s_yerr"
              /\ yielded[Len(yielded)] =
                    [kind |-> "str", value |-> InvalidJsonMsg(tool_calls[pos].name, "")]
              /\ cur.gate = "none" /\ cur.inner = "none" /\ ~cur.effect
              /\ Cardinality({i \in DOMAIN yielded : yielded[i].kind = "dict"})
                    <= Cardinality({k \in 1..pos : tool_calls[k].arguments # ""}))
    /\ [][(/\ mode = "stream" /\ pc = "s_yerr" /\ tool_calls[pos].arguments = ""
            /\ done' # done)
           => LET msg == InvalidJsonMsg(tool_calls[pos].name, "")
                  out == [role |-> "tool", tool_call_id |-> tool_calls[pos].id,
                          name |-> tool_calls[pos].name, content |-> [text |-> msg]]
              IN  /\ done' = Append(done, [call |-> cur, result |-> [error |-> msg]])
                  /\ fs' = fs /\ shellRuns' = shellRuns /\ prompts' = prompts
                  /\ \/ \E i \in DOMAIN tool_outputs' : tool_outputs'[i] = out
                     \/ history'[Len(history')] = out
      ]_vars

C36_Witness ==
    /\ mode = "stream"
    /\ Len(done) = 2
    /\ done[1].call.name = "nope"
    /\ done[2].call.name = "ls"
    /\ done[2].result = [error |-> InvalidJsonMsg("ls", "")]
    /\ Len(yielded) = 0

(***************************************************************************)
(* C37.  In streaming mode the notifications the generator has yielded in  *)
(* a turn are, in assembly order and once each, those of the assembled     *)
(* calls with valid JSON arguments up to the call being handled; calls are *)
(* handled one at a time in that order; and a step in which a prompt is    *)
(* issued, a tool takes effect or the user's no is recorded starts from a  *)
(* state in which the notification of that call has been delivered.        *)
(***************************************************************************)
C37_NotifiedOnceBeforeDispatch ==
    /\ [](/\ mode = "stream"
           /\ pc \in {"s_ynote", "s_yerr", "s_gate", "s_tool"}
           => LET RECURSIVE notes(_)
                  notes(k) ==
                      IF k = 0 THEN <<>>
                      ELSE LET parsed == JsonLoads(tool_calls[k].arguments)
                           IN  notes(k - 1)
                                 \o (IF parsed.ok
                                     THEN <<[kind |-> "dict", name |-> tool_calls[k].name,
                                             args |-> parsed.value]>>
                                     ELSE <<>>)
                  dicts == SelectSeq(yielded, LAMBDA y : y.kind = "dict")
              IN  /\ pos \in DOMAIN tool_calls
                  /\ dicts = notes(pos)
                  /\ Len(tool_outputs) = pos - 1
                  /\ \A k \in 1..(pos - 1) : tool_outputs[k].tool_call_id = tool_calls[k].id
                  /\ cur.id = tool_calls[pos].id /\ cur.name = tool_calls[pos].name
                  /\ pc = "s_ynote" =>
                        /\ cur.gate = "none" /\ cur.inner = "none" /\ ~cur.effect
                        /\ yielded[Len(yielded)] =
                              [kind |-> "dict", name |-> cur.name, args |-> cur.args])
    /\ [][(/\ mode = "stream" /\ nCalls' = nCalls
            /\ \/ Len(prompts') > Len(prompts)
               \/ fs' # fs
               \/ shellRuns' # shellRuns
               \/ answer' = "n" /\ pc = "s_gate")
           => LET dicts == SelectSeq(yielded, LAMBDA y : y.kind = "dict")
              IN  /\ pc \in {"s_ynote", "s_gate", "s_tool"}
                  /\ dicts # <<>>
                  /\ dicts[Len(dicts)] = [kind |-> "dict", name |-> cur.name, args |-> cur.args]
      ]_vars

C37_Witness ==
    /\ mode = "stream" /\ ~yolo
    /\ pc = "s_ynote" /\ pos = 2
    /\ Len(done) = 1
    /\ done[1].call.name = "shell" /\ done[1].call.gate = "n"
    /\ done[1].result = RejectedByUser("shell")
    /\ Len(SelectSeq(yielded, LAMBDA y : y.kind = "dict")) = 2

(***************************************************************************)
(* C38.  GeminiClient.create is a singleton factory.  Whatever create and  *)
(* clear_cache calls were made, one instance at most is current; a create  *)
(* call that finds an instance whose credentials are valid, or invalid and *)
(* refreshed, returns that instance without authenticating or onboarding   *)
(* again; and a create call never returns an instance it held whose        *)
(* credentials are invalid and cannot be refreshed.                        *)
(***************************************************************************)
C38_SingletonFactory ==
    /\ [](lib.pc = "on" =>
             /\ gemini.instance \in 0..gemini.made
             /\ gemini.initialized <=> gemini.instance # 0)
    /\ [][(lib.pc = "on" /\ gemini'.creates = gemini.creates + 1) =>
             LET held   == gemini.instance # 0 /\ gemini.initialized
                 usable == lib'.valid \/ (gemini.refresh_token /\ lib'.refresh = "ok")
             IN  /\ (held /\ usable) =>
                        /\ gemini'.pc = "idle"
                        /\ gemini'.out = [kind |-> "return", instance |-> gemini.instance,
                                           project_id |-> gemini.project_id]
                        /\ gemini'.instance = gemini.instance
                        /\ gemini'.made = gemini.made
                 /\ (/\ held /\ gemini'.pc = "idle"
                     /\ gemini'.out.kind = "return"
                     /\ gemini'.out.instance = gemini.instance) => usable
      ]_vars

(***************************************************************************)
(* C39.  The onboarding poll loop ends with the first onboardUser answer   *)
(* that is done: create then has the client with that answer's project id  *)
(* (saving it is attempted), or raises when the answer carries none, and   *)
(* no further poll is made.  An answer that is not done yields no project  *)
(* id: the loop polls again.  A transport failure of a poll ends the       *)
(* onboarding with an error and nothing is saved.  With a backend that     *)
(* answers the polls and does not answer not-done for ever, an onboarding  *)
(* that is polling comes to its end.                                       *)
(***************************************************************************)
C39_PollLoopEnds ==
    /\ [][(gemini.pc = "poll" /\ gemini'.polls = gemini.polls + 1) =>
             LET a == gemini'.answered
             IN  /\ (a.kind = "done" /\ a.id # "None") =>
                        /\ gemini'.pc = "idle"
                        /\ gemini'.project_id = a.id
                        /\ gemini'.instance = gemini.made + 1
                        /\ gemini'.out = [kind |-> "return", instance |-> gemini.made + 1,
                                           project_id |-> a.id]
                        /\ cacheFile'.saved \in {a.id, cacheFile.saved}
                 /\ (a.kind = "done" /\ a.id = "None") =>
                        /\ gemini'.pc = "idle"
                        /\ gemini'.out = [kind |-> "raise"]
                        /\ gemini'.instance = 0
                        /\ cacheFile' = cacheFile
                 /\ a.kind = "pending" =>
                        /\ gemini'.pc = "poll"
                        /\ gemini'.out = gemini.out
                        /\ gemini'.instance = 0 /\ gemini'.project_id = gemini.project_id
                        /\ cacheFile' = cacheFile
                 /\ a.kind = "failure" =>
                        /\ gemini'.pc = "idle"
                        /\ gemini'.out = [kind |-> "raise"]
                        /\ gemini'.instance = 0
                        /\ cacheFile' = cacheFile
      ]_vars
    /\ [](gemini.answered.kind \in {"done", "failure"} => gemini.pc = "idle")
    /\ [](gemini.answered.kind = "pending" => gemini.pc = "poll")
    /\ (gemini.pc = "poll" ~> gemini.pc = "idle")

C39_Witness ==
    /\ lib.pc = "on"
    /\ gemini.pc = "idle" /\ gemini.polls = 2
    /\ gemini.answered = [kind |-> "done", id |-> "p2"]
    /\ gemini.out.kind = "return" /\ gemini.project_id = "p2"
    /\ cacheFile.saved = "p2"

====
